---- MODULE Spec2Model ----
(***************************************************************************)
(* zStock market-data acquisition and caching engine.                      *)
(*                                                                         *)
(* Part 1: the Local Store (services/local_data_service.py), an SQLite     *)
(*         file with the tables stock_history and sync_log.                *)
(* Part 2: the same store with save_stock_data split at its SQL round      *)
(*         trips and run by two threads (the two background workers).      *)
(* Part 3: BackgroundTaskQueue (services/background_tasks.py).             *)
(* Part 4: test_priority_ordering, a queue of one worker.                  *)
(* Part 5: FallbackExecutor.execute and with_retry (services/fallback.py)  *)
(*         and the retry loop of AkShareDataSource.fetch_kline.            *)
(* Part 6: LocalDataService.get_stock_data_smart and the background tasks  *)
(*         it submits.                                                     *)
(* Part 7: live fusion, _merge_realtime_data and                           *)
(*         RealtimeKlineService._merge_realtime.                           *)
(* Part 8: the page loop of the Tencent and Eastmoney fetch_kline.         *)
(* Part 9: RealtimeQuotationService.get_market_snapshot and its cache.     *)
(* Part 10: the three last-trading-day functions.                          *)
(* Part 11: the three rules that route a code to a market.                 *)
(* Part 12: wait_completion, and the task queue under fair scheduling.     *)
(*                                                                         *)
(* Dates are the strings 'YYYY-MM-DD' in the code, compared as strings;    *)
(* they are modelled as day numbers 1..MaxDay, with the same order.  The   *)
(* five REAL columns open, high, low, close, volume of a bar are modelled  *)
(* as one value, ohlcv, in 1..MaxVal.  The wall clock is [day, hour]; the  *)
(* hours modelled are the ones in Hours.                                   *)
(***************************************************************************)
EXTENDS Integers, Sequences, FiniteSets, TLC

\* ------------------------------------------------------------------ bounds
\* calendar days 1..MaxDay
MaxDay == 2
\* distinct (open, high, low, close, volume) values
MaxVal == 2

\* submit calls made on the task queue
MaxSubmits == 2
\* providers handed to one FallbackExecutor
MaxProviders == 3

\* ------------------------------------------------------- program constants
\* datetime.now().replace(hour=15, minute=0, second=0, microsecond=0)
MarketCloseHour == 15
\* class TaskPriority(IntEnum)
HIGH == 1
NORMAL == 5
LOW == 10

\* every SQL statement of the store is scoped by code = ?; one symbol is modelled
Codes == {"600519"}
Dates == 1..MaxDay
Vals == 1..MaxVal
\* an hour before the close and an hour after it
Hours == {MarketCloseHour - 1, MarketCloseHour + 1}

\* an input DataFrame: a batch of up to two bars, which may carry the same date
BarRow == [date : Dates, ohlcv : Vals]
DataFrames == {<<>>} \cup {<<a>> : a \in BarRow} \cup {<<a, b>> : a, b \in BarRow}

VARIABLES
    stock_history,  \* table stock_history: the committed rows [code, date, ohlcv]
    sync_log,       \* table sync_log: the committed rows, one per code
    now,            \* datetime.now(): [day, hour]
    call,           \* the last Local Store operation and what it returned
    \* Part 2: save_stock_data on the worker threads
    tpc,            \* where each thread is in save_stock_data
    tcode,          \* its code
    trows,          \* its df after drop_duplicates
    texisting,      \* its existing_dates
    tres,           \* how its call ended
    db_writer,      \* the thread whose connection holds SQLite's write lock
    crashed,        \* the process was killed
    hist0,          \* stock_history when the threads started
    log0,           \* sync_log when the threads started
    \* Part 3: BackgroundTaskQueue
    queue,          \* self._queue: the entries [priority, counter, name] put and not yet got
    unfinished,     \* self._queue.unfinished_tasks, which join() waits on
    pending_tasks,  \* self._pending_tasks
    task_counter,   \* self._task_counter
    running,        \* self._running
    completed_count,\* self._completed_count
    failed_count,   \* self._failed_count
    spc,            \* where each submitting thread is in submit
    stask,          \* the entry it is about to put
    wpc,            \* where each worker is in _worker
    wtask,          \* the entry it got
    wread,          \* the counter value it loaded for its += 1
    submitted,      \* per name, the submit calls made
    accepted,       \* per name, the submit calls that passed the pending check
    executed,       \* per name, the calls of the task's function
    finished,       \* per name, the calls that have returned or raised
    started,        \* the entries in the order their functions were called
    queued_at_shutdown  \* the entries that were in the queue when shutdown was called

\* FallbackExecutor.execute
VARIABLES
    providers,      \* self.providers: what each provider does when called
    provider_i,     \* i of the for loop
    provider_calls, \* per provider, the calls made
    exec_result,    \* what execute returned
    exec_pc

\* the wrapper of with_retry
VARIABLES
    max_retries,    \* the decorator's argument
    attempt,        \* attempt of the for loop
    call_count,     \* the calls of the wrapped function
    current_delay,
    slept,          \* seconds passed in time.sleep
    retry_result,   \* what the wrapper returned
    retry_pc

\* AkShareDataSource.fetch_kline
VARIABLES
    ak_attempt,     \* attempt of the for loop
    ak_calls,       \* the calls of ak.stock_zh_a_hist
    ak_delay,
    ak_result,      \* what fetch_kline returned
    ak_pc

\* LocalDataService.get_stock_data_smart and _background_backfill
VARIABLES
    smart,          \* the last get_stock_data_smart call: what it was given and what it did
    backfill,       \* the last _background_backfill run: its pages and what it set
    fusion          \* a series, a quote, and the series fused with it once and twice

\* the provider adapters, the quotation service and the pure helpers
VARIABLES
    pager,          \* the page loop of one fetch_kline call
    snapshot,       \* RealtimeQuotationService: its cache, and the last get_market_snapshot
    routed,         \* a code or an instant, and what the helpers made of it
    waiter          \* a thread in wait_completion, and the puts made before its call

storeVars == <<stock_history, sync_log, now, call>>
threadVars == <<tpc, tcode, trows, texisting, tres, db_writer, crashed, hist0, log0>>
queueVars == <<queue, unfinished, pending_tasks, task_counter, running, completed_count,
               failed_count, spc, stask, wpc, wtask, submitted, accepted, executed,
               finished, started, queued_at_shutdown, wread>>
execVars == <<providers, provider_i, provider_calls, exec_result, exec_pc>>
retryVars == <<max_retries, attempt, call_count, current_delay, slept, retry_result, retry_pc>>
adapterVars == <<ak_attempt, ak_calls, ak_delay, ak_result, ak_pc>>
fallbackVars == <<execVars, retryVars, adapterVars>>
serviceVars == <<pager, snapshot, routed, waiter>>
smartVars == <<smart, backfill, fusion, serviceVars>>
vars == <<storeVars, threadVars, queueVars, fallbackVars, smartVars>>

SetMax(S) == CHOOSE x \in S : \A y \in S : y <= x
SetMin(S) == CHOOSE x \in S : \A y \in S : x <= y

\* datetime.now().strftime('%Y-%m-%d')
Today(t) == t.day
\* t1 < t2 on datetimes
TimeLess(t1, t2) == t1.day < t2.day \/ (t1.day = t2.day /\ t1.hour < t2.hour)
\* datetime.now().replace(hour=15, minute=0, second=0, microsecond=0)
MarketCloseTime(t) == [day |-> t.day, hour |-> MarketCloseHour]

\* ---------------------------------------------------------------- queries
\* SELECT date FROM stock_history WHERE code = ?
ExistingDates(hist, code) == {r.date : r \in {x \in hist : x.code = code}}
\* SELECT COUNT(*) FROM stock_history WHERE code = ?
RowCount(hist, code) == Cardinality({x \in hist : x.code = code})
SyncRows(log, code) == {x \in log : x.code = code}

\* SELECT MAX(date) / MIN(date) FROM stock_history WHERE code = ?  (0: None)
get_last_data_date(hist, code) ==
    IF ExistingDates(hist, code) = {} THEN 0 ELSE SetMax(ExistingDates(hist, code))
get_first_data_date(hist, code) ==
    IF ExistingDates(hist, code) = {} THEN 0 ELSE SetMin(ExistingDates(hist, code))

\* result is not None and result[0] == 1
is_full_sync_completed(log, code) ==
    \E x \in SyncRows(log, code) : x.full_sync_completed = 1

\* UPDATE sync_log SET full_sync_completed = 1 WHERE code = ?
MarkFullSync(log, code) ==
    {IF x.code = code THEN [x EXCEPT !.full_sync_completed = 1] ELSE x : x \in log}

\* ------------------------------------------------- save_stock_data, pieces
\* df.drop_duplicates(subset=['code', 'date']): the first row of a date stays
RECURSIVE DropDuplicatesFrom(_, _)
DropDuplicatesFrom(df, seen) ==
    IF df = <<>> THEN {}
    ELSE IF Head(df).date \in seen THEN DropDuplicatesFrom(Tail(df), seen)
    ELSE {Head(df)} \cup DropDuplicatesFrom(Tail(df), seen \cup {Head(df).date})
DropDuplicates(df) == DropDuplicatesFrom(df, {})

DfDates(rows) == {r.date : r \in rows}

\* today in existing_dates and today in df['date'].values
TodayClash(existing_dates, rows, today) ==
    today \in existing_dates /\ today \in DfDates(rows)

\* a DELETE whose WHERE clause matches no row
DeleteNoRow(hist, code, date) == hist
\* DELETE FROM stock_history WHERE code = ? AND date = ?
DeleteRow(hist, code, date) == {x \in hist : ~(x.code = code /\ x.date = date)}

\* the batch with the stored dates left in
NewDataUnfiltered(rows, existing_dates) == rows
\* df[~df['date'].isin(existing_dates)]
NewData(rows, existing_dates) == {r \in rows : r.date \notin existing_dates}

\* a table without its PRIMARY KEY
KeyConflictNever(hist, code, rows) == FALSE
\* PRIMARY KEY (code, date): the insert of a row whose key is stored raises
\* sqlite3.IntegrityError
KeyConflict(hist, code, rows) ==
    \E r \in rows : \E x \in hist : x.code = code /\ x.date = r.date

\* new_data.to_sql('stock_history', conn, if_exists='append', ...)
InsertRows(hist, code, rows) ==
    hist \cup {[code |-> code, date |-> r.date, ohlcv |-> r.ohlcv] : r \in rows}

\* INSERT OR REPLACE INTO sync_log (code, last_sync_date, last_data_date,
\* record_count, updated_at) VALUES (...): the row of this code, if any, is
\* deleted and the new one inserted; full_sync_completed is not among the
\* columns given and takes its DEFAULT 0.  last_sync_date and updated_at
\* hold the same time.
ReplaceSyncLog(log, code, t, last_date, count) ==
    {x \in log : x.code # code}
        \cup {[code |-> code, updated_at |-> t, last_data_date |-> last_date,
               record_count |-> count, full_sync_completed |-> 0]}

\* save_stock_data without the early return on an empty new_data
SaveRowsNoEarlyReturn(hist, log, t, code, rows) ==
    LET existing0 == ExistingDates(hist, code)
        clash == TodayClash(existing0, rows, Today(t))
        hist1 == IF clash THEN DeleteRow(hist, code, Today(t)) ELSE hist
        existing_dates == IF clash THEN existing0 \ {Today(t)} ELSE existing0
        new_data == NewData(rows, existing_dates)
        records_after == Cardinality(existing_dates) + Cardinality(new_data)
    IN  IF KeyConflict(hist1, code, new_data)
        THEN [hist |-> hist, log |-> log, ret |-> 0]
        ELSE [hist |-> InsertRows(hist1, code, new_data),
              log |-> ReplaceSyncLog(log, code, t, SetMax(DfDates(rows)), records_after),
              ret |-> Cardinality(new_data)]

\* save_stock_data from line 123 on, run alone from the store (hist, log) at
\* time t, rows being the batch after drop_duplicates: the store it leaves and
\* the number it returns
SaveRows(hist, log, t, code, rows) ==
    LET existing0 == ExistingDates(hist, code)
        clash == TodayClash(existing0, rows, Today(t))
        hist1 == IF clash THEN DeleteRow(hist, code, Today(t)) ELSE hist
        existing_dates == IF clash THEN existing0 \ {Today(t)} ELSE existing0
        new_data == NewData(rows, existing_dates)
        records_after == Cardinality(existing_dates) + Cardinality(new_data)
    IN  IF new_data = {} \/ KeyConflict(hist1, code, new_data)
        THEN [hist |-> hist, log |-> log, ret |-> 0]
        ELSE [hist |-> InsertRows(hist1, code, new_data),
              log |-> ReplaceSyncLog(log, code, t, SetMax(DfDates(rows)), records_after),
              ret |-> Cardinality(new_data)]

\* save_stock_data(code, df) run alone
SaveResult(hist, log, t, code, df) ==
    IF df = <<>> THEN [hist |-> hist, log |-> log, ret |-> 0]
    ELSE SaveRows(hist, log, t, code, DropDuplicates(df))

\* ===================================================================
\* Part 1.  The Local Store, one operation at a time
\* ===================================================================

NoCall == [op |-> "none", code |-> "", ret |-> 0, rows |-> 0,
           today |-> "absent", late |-> FALSE, kept |-> FALSE]

\* a provider returns bars of days up to today
ProviderFrames(t) == {df \in DataFrames : \A i \in 1..Len(df) : df[i].date <= Today(t)}

\* the symbol's sync time is at or after 15:00 of today
SyncedAfterClose(log, t, code) ==
    \E x \in SyncRows(log, code) : ~TimeLess(x.updated_at, MarketCloseTime(t))

\* a bar of the batch, not of today, is stored with other values
DiffersFromStored(hist, t, code, df) ==
    \E r \in DropDuplicates(df) : \E x \in hist :
        x.code = code /\ x.date = r.date /\ r.date # Today(t) /\ x.ohlcv # r.ohlcv

Threads == {"BackgroundWorker-0", "BackgroundWorker-1"}

ThreadsIdle ==
    /\ tpc = [t \in Threads |-> "idle"]
    /\ tcode = [t \in Threads |-> ""]
    /\ trows = [t \in Threads |-> {}]
    /\ texisting = [t \in Threads |-> {}]
    /\ tres = [t \in Threads |-> "none"]
    /\ db_writer = "none"
    /\ crashed = FALSE
    /\ hist0 = {}
    /\ log0 = {}

\* the threads that call submit, and the names they submit under
Submitters == {"request-0", "request-1"}
TaskNames == {"incr-600519", "backfill-600519"}
\* the names test_priority_ordering submits under
TestNames == {"low", "high", "normal"}
AllNames == TaskNames \cup TestNames
\* the priorities get_stock_data_smart submits with
Priorities == {HIGH, LOW}
NoTask == [priority |-> 0, counter |-> 0, name |-> ""]

\* data_config: MAX_RETRIES, RETRY_DELAY, RETRY_BACKOFF
MAX_RETRIES == 3
RETRY_DELAY == 2
RETRY_BACKOFF == 2
\* AkShareDataSource.__init__: self._max_retries = 3
AkMaxRetries == 3

NoResult == [kind |-> "pending", from |-> 0]

\* no execute, no wrapper and no fetch_kline call made
ExecIdle ==
    /\ providers = <<>>
    /\ provider_i = 0
    /\ provider_calls = <<>>
    /\ exec_result = NoResult
    /\ exec_pc = "idle"
RetryIdle ==
    /\ max_retries = MAX_RETRIES
    /\ attempt = 0
    /\ call_count = 0
    /\ current_delay = RETRY_DELAY
    /\ slept = 0
    /\ retry_result = NoResult
    /\ retry_pc = "idle"
AdapterIdle ==
    /\ ak_attempt = 0
    /\ ak_calls = 0
    /\ ak_delay = 2
    /\ ak_result = NoResult
    /\ ak_pc = "idle"
FallbackIdle == ExecIdle /\ RetryIdle /\ AdapterIdle

NoSmart == [path |-> "none", days |-> 0, include_realtime |-> FALSE, count |-> 0,
            fetched |-> <<>>, ret |-> <<>>, calls |-> <<>>, submits |-> <<>>,
            quote |-> 0]
NoBackfill == [ran |-> FALSE, pages |-> 0, empty_page |-> FALSE, marked |-> FALSE,
               saturated |-> FALSE]
NoFusion == [service |-> "none", pc |-> "idle", data |-> <<>>, quote |-> 0,
             t |-> [day |-> 1, hour |-> MarketCloseHour - 1], once |-> <<>>, twice |-> <<>>]
NoPager == [pc |-> "idle", source |-> "none", days |-> 0, remaining_days |-> 0,
            end_given |-> FALSE, current_end_date |-> 0, pages |-> 0, requests |-> <<>>,
            fetched |-> {}, short |-> FALSE, capped |-> FALSE]
NoSnapshot == [stock_codes |-> TRUE, cache |-> {}, cache_time |-> 0, clock |-> 0, calls |-> 0,
               ret |-> [key |-> <<>>, hit |-> FALSE, empty |-> FALSE, age |-> 0]]
NoRouted == [kind |-> "none", input |-> <<>>, output |-> <<>>]
NoWaiter == [pc |-> "idle", before |-> [n \in TaskNames |-> 0]]
ServiceIdle ==
    pager = NoPager /\ snapshot = NoSnapshot /\ routed = NoRouted /\ waiter = NoWaiter
\* no get_stock_data_smart call made, no backfill run, nothing fused
SmartIdle == smart = NoSmart /\ backfill = NoBackfill /\ fusion = NoFusion /\ ServiceIdle

\* BackgroundTaskQueue.__init__(num_workers): the workers in `workers` started
QueueStarted(workers) ==
    /\ queue = {}
    /\ unfinished = 0
    /\ pending_tasks = {}
    /\ task_counter = 0
    /\ running = TRUE
    /\ completed_count = 0
    /\ failed_count = 0
    /\ spc = [s \in Submitters |-> "idle"]
    /\ stask = [s \in Submitters |-> NoTask]
    /\ wpc = [w \in Threads |-> IF w \in workers THEN "loop" ELSE "absent"]
    /\ wtask = [w \in Threads |-> NoTask]
    /\ wread = [w \in Threads |-> 0]
    /\ submitted = [n \in AllNames |-> 0]
    /\ accepted = [n \in AllNames |-> 0]
    /\ executed = [n \in AllNames |-> 0]
    /\ finished = [n \in AllNames |-> 0]
    /\ started = <<>>
    /\ queued_at_shutdown = {}

\* get_task_queue: BackgroundTaskQueue(num_workers=BACKGROUND_WORKERS)
QueueIdle == QueueStarted(Threads)

InitStore ==
    /\ QueueIdle
    /\ FallbackIdle
    /\ SmartIdle
    /\ stock_history = {}
    /\ sync_log = {}
    /\ now = [day |-> 1, hour |-> MarketCloseHour - 1]
    /\ call = NoCall
    /\ ThreadsIdle

\* LocalDataService.save_stock_data(code, df); call records what the batch
\* was like and what the store was like when it arrived
SaveStockData(code, df) ==
    LET r == SaveResult(stock_history, sync_log, now, code, df)
    IN  /\ stock_history' = r.hist
        /\ sync_log' = r.log
        /\ call' = [op |-> "save", code |-> code, ret |-> r.ret,
                    rows |-> Cardinality(DropDuplicates(df)),
                    today |-> IF Today(now) \notin DfDates(DropDuplicates(df)) THEN "absent"
                              ELSE IF Today(now) \in ExistingDates(stock_history, code)
                                   THEN "stored" ELSE "new",
                    late |-> SyncedAfterClose(sync_log, now, code),
                    kept |-> DiffersFromStored(stock_history, now, code, df)]
        /\ UNCHANGED <<now, threadVars, queueVars, fallbackVars, smartVars>>

\* LocalDataService.mark_full_sync_completed(code)
MarkFullSyncCompleted(code) ==
    /\ sync_log' = MarkFullSync(sync_log, code)
    /\ call' = [NoCall EXCEPT !.op = "mark", !.code = code]
    /\ UNCHANGED <<stock_history, now, threadVars, queueVars, fallbackVars, smartVars>>

\* scripts/fix_all_stale_data.py: of every symbol whose sync time is before
\* 15:00 of today, today's row is deleted; sync_log is not written
StaleToday(hist, log, t) ==
    {x \in hist : /\ x.date = Today(t)
                  /\ \E l \in SyncRows(log, x.code) :
                        TimeLess(l.updated_at, MarketCloseTime(t))}
FixAllStaleData ==
    /\ stock_history' = stock_history \ StaleToday(stock_history, sync_log, now)
    /\ call' = [NoCall EXCEPT !.op = "fix"]
    /\ UNCHANGED <<sync_log, now, threadVars, queueVars, fallbackVars, smartVars>>

\* the wall clock moves on, within the day or to the next day
LaterTimes(t) ==
    {[day |-> t.day, hour |-> h] : h \in {x \in Hours : x > t.hour}}
        \cup {[day |-> t.day + 1, hour |-> h] : h \in {x \in Hours : t.day < MaxDay}}
Tick ==
    /\ \E t \in LaterTimes(now) : now' = t
    /\ UNCHANGED <<stock_history, sync_log, call, threadVars, queueVars, fallbackVars, smartVars>>

NextStore ==
    \/ \E code \in Codes : \E df \in ProviderFrames(now) : SaveStockData(code, df)
    \/ \E code \in Codes : MarkFullSyncCompleted(code)
    \/ FixAllStaleData
    \/ Tick

Spec == InitStore /\ [][NextStore]_vars

\* ===================================================================
\* Part 2.  save_stock_data on two threads, one SQL round trip at a time
\*
\* Each call opens its own connection.  sqlite3 opens a transaction before
\* a DELETE or INSERT, not before a SELECT, so existing_dates is read
\* outside any transaction.  The DELETE takes SQLite's write lock, which its
\* connection holds until it commits or rolls back; a connection that waits
\* for the lock longer than the connect timeout raises OperationalError.
\* DataFrame.to_sql, given a sqlite3 connection, runs its INSERT in pandas'
\* SQLiteDatabase.run_transaction, which ends with con.commit(), or with
\* con.rollback() when the INSERT raises: the DELETE and the INSERT are
\* committed there, and the INSERT OR REPLACE into sync_log is a second
\* transaction, committed by conn.commit().
\* ===================================================================

Times == [day : Dates, hour : Hours]

\* what a thread is given: no bar (a fetch that failed) or one bar
ThreadFrames(t) == {df \in ProviderFrames(t) : Len(df) <= 1}

\* the store the threads find: what one earlier save_stock_data left
InitThreads ==
    /\ QueueIdle
    /\ FallbackIdle
    /\ SmartIdle
    /\ now \in Times
    /\ \E t0 \in Times : \E code \in Codes : \E df \in ProviderFrames(t0) :
          /\ ~TimeLess(now, t0)
          /\ stock_history = SaveResult({}, {}, t0, code, df).hist
          /\ sync_log = SaveResult({}, {}, t0, code, df).log
    /\ call = NoCall
    /\ tpc = [t \in Threads |-> "idle"]
    /\ tcode = [t \in Threads |-> ""]
    /\ trows = [t \in Threads |-> {}]
    /\ texisting = [t \in Threads |-> {}]
    /\ tres = [t \in Threads |-> "none"]
    /\ db_writer = "none"
    /\ crashed = FALSE
    /\ hist0 = stock_history
    /\ log0 = sync_log

Return(t, res) ==
    /\ tpc' = [tpc EXCEPT ![t] = "done"]
    /\ tres' = [tres EXCEPT ![t] = res]

\* lines 108-131: the empty-batch return, drop_duplicates, and
\* SELECT date FROM stock_history WHERE code = ?
SaveSelect(t, code, df) ==
    /\ ~crashed /\ tpc[t] = "idle"
    /\ tcode' = [tcode EXCEPT ![t] = code]
    /\ trows' = [trows EXCEPT ![t] = DropDuplicates(df)]
    /\ IF df = <<>>
       THEN Return(t, "zero") /\ UNCHANGED texisting
       ELSE /\ texisting' = [texisting EXCEPT ![t] = ExistingDates(stock_history, code)]
            /\ tpc' = [tpc EXCEPT ![t] = "delete"]
            /\ UNCHANGED tres
    /\ UNCHANGED <<storeVars, db_writer, crashed, hist0, log0, queueVars, fallbackVars, smartVars>>

\* lines 134-147: the DELETE of today's row, which opens the transaction,
\* and the return when no row of the batch is new
SaveDelete(t) ==
    /\ ~crashed /\ tpc[t] = "delete"
    /\ LET rows == trows[t]
           clash == TodayClash(texisting[t], rows, Today(now))
           existing_dates == IF clash THEN texisting[t] \ {Today(now)} ELSE texisting[t]
       IN  /\ clash => db_writer = "none"
           /\ db_writer' = IF clash THEN t ELSE db_writer
           /\ texisting' = [texisting EXCEPT ![t] = existing_dates]
           /\ IF NewData(rows, existing_dates) = {}
              THEN Return(t, "zero")
              ELSE tpc' = [tpc EXCEPT ![t] = "insert"] /\ UNCHANGED tres
    /\ UNCHANGED <<storeVars, tcode, trows, crashed, hist0, log0, queueVars, fallbackVars, smartVars>>

\* lines 150-152: to_sql; it commits the DELETE and the INSERT, or, on an
\* IntegrityError, rolls the DELETE back, and save_stock_data returns 0
SaveInsert(t) ==
    /\ ~crashed /\ tpc[t] = "insert"
    /\ db_writer \in {"none", t}
    /\ LET new_data == NewData(trows[t], texisting[t])
           hist1 == IF db_writer = t
                    THEN DeleteRow(stock_history, tcode[t], Today(now))
                    ELSE stock_history
       IN  IF KeyConflict(hist1, tcode[t], new_data)
           THEN Return(t, "IntegrityError") /\ UNCHANGED stock_history
           ELSE /\ stock_history' = InsertRows(hist1, tcode[t], new_data)
                /\ tpc' = [tpc EXCEPT ![t] = "sync_log"]
                /\ UNCHANGED tres
    /\ db_writer' = "none"
    /\ UNCHANGED <<sync_log, now, call, tcode, trows, texisting, crashed, hist0, log0, queueVars, fallbackVars, smartVars>>

\* lines 154-168: INSERT OR REPLACE INTO sync_log, conn.commit() and return
SaveSyncLog(t) ==
    /\ ~crashed /\ tpc[t] = "sync_log"
    /\ db_writer = "none"
    /\ LET rows == trows[t]
           new_data == NewData(rows, texisting[t])
           records_after == Cardinality(texisting[t]) + Cardinality(new_data)
       IN  sync_log' = ReplaceSyncLog(sync_log, tcode[t], now, SetMax(DfDates(rows)),
                                      records_after)
    /\ Return(t, "ok")
    /\ UNCHANGED <<stock_history, now, call, tcode, trows, texisting, db_writer, crashed,
                   hist0, log0, queueVars, fallbackVars, smartVars>>

\* the thread needs the write lock
WantsLock(t) ==
    \/ tpc[t] \in {"insert", "sync_log"}
    \/ /\ tpc[t] = "delete"
       /\ TodayClash(texisting[t], trows[t], Today(now))

\* lines 170-172: the other connection kept the write lock for longer than
\* the connect timeout: OperationalError, caught, return 0
LockTimeout(t) ==
    /\ ~crashed /\ WantsLock(t)
    /\ db_writer \notin {"none", t}
    /\ Return(t, "OperationalError")
    /\ UNCHANGED <<storeVars, tcode, trows, texisting, db_writer, crashed, hist0, log0, queueVars, fallbackVars, smartVars>>

\* the process is killed while a call is under way; SQLite rolls the open
\* transaction back, and what the threads held in memory is gone
Crash ==
    /\ ~crashed
    /\ \E t \in Threads : tpc[t] \notin {"idle", "done"}
    /\ crashed' = TRUE
    /\ db_writer' = "none"
    /\ tpc' = [t \in Threads |-> IF tpc[t] \in {"idle", "done"} THEN tpc[t] ELSE "killed"]
    /\ trows' = [t \in Threads |-> {}]
    /\ texisting' = [t \in Threads |-> {}]
    /\ UNCHANGED <<storeVars, tcode, tres, hist0, log0, queueVars, fallbackVars, smartVars>>

NextThreads ==
    \/ \E t \in Threads : \E code \in Codes : \E df \in ThreadFrames(now) :
          SaveSelect(t, code, df)
    \/ \E t \in Threads : SaveDelete(t)
    \/ \E t \in Threads : SaveInsert(t)
    \/ \E t \in Threads : SaveSyncLog(t)
    \/ \E t \in Threads : LockTimeout(t)
    \/ Crash

SpecThreads == InitThreads /\ [][NextThreads]_vars

\* ===================================================================
\* Part 3.  BackgroundTaskQueue: submitting threads and the workers
\* ===================================================================

InitQueue ==
    /\ QueueIdle
    /\ FallbackIdle
    /\ SmartIdle
    /\ ThreadsIdle
    /\ stock_history = {}
    /\ sync_log = {}
    /\ now = [day |-> 1, hour |-> MarketCloseHour - 1]
    /\ call = NoCall

\* a pending check that finds no name
InPendingNever(name) == FALSE
\* task_name in self._pending_tasks
InPending(name) == name \in pending_tasks

Bump(f, n) == [f EXCEPT ![n] = @ + 1]
TotalSubmitted ==
    submitted["incr-600519"] + submitted["backfill-600519"]
        + submitted["low"] + submitted["high"] + submitted["normal"]

\* submit, lines 116-126: under self._lock, the pending check, and for a name
\* not pending its entry into the set and the draw of the counter
SubmitCheck(s, name, priority) ==
    /\ spc[s] = "idle"
    /\ submitted' = Bump(submitted, name)
    /\ IF InPending(name)
       THEN UNCHANGED <<pending_tasks, task_counter, spc, stask, accepted>>
       ELSE /\ pending_tasks' = pending_tasks \cup {name}
            /\ task_counter' = task_counter + 1
            /\ stask' = [stask EXCEPT ![s] = [priority |-> priority,
                                              counter |-> task_counter + 1,
                                              name |-> name]]
            /\ spc' = [spc EXCEPT ![s] = "put"]
            /\ accepted' = Bump(accepted, name)
    /\ UNCHANGED <<queue, unfinished, running, completed_count, failed_count, wpc, wtask,
                   executed, finished, started, storeVars, threadVars, fallbackVars, smartVars, queued_at_shutdown, wread>>

\* submit, lines 129-130: self._queue.put((priority, counter, task_data)),
\* outside the lock
SubmitPut(s) ==
    /\ spc[s] = "put"
    /\ queue' = queue \cup {stask[s]}
    /\ unfinished' = unfinished + 1
    /\ spc' = [spc EXCEPT ![s] = "idle"]
    /\ stask' = [stask EXCEPT ![s] = NoTask]
    /\ UNCHANGED <<pending_tasks, task_counter, running, completed_count, failed_count,
                   wpc, wtask, submitted, accepted, executed, finished, started,
                   storeVars, threadVars, fallbackVars, smartVars, queued_at_shutdown, wread>>

\* (priority, counter, task_data) tuples compare by priority, then counter
EntryLess(a, b) ==
    a.priority < b.priority \/ (a.priority = b.priority /\ a.counter < b.counter)
\* a get that hands over the oldest entry whatever its priority
OldestEntry(q) == CHOOSE e \in q : \A f \in q : e.counter <= f.counter
\* PriorityQueue.get: the smallest entry
Smallest(q) == CHOOSE e \in q : \A f \in q \ {e} : EntryLess(e, f)

\* _worker, line 62: while self._running
WorkerLoop(w) ==
    /\ wpc[w] = "loop"
    /\ wpc' = [wpc EXCEPT ![w] = IF running THEN "get" ELSE "stopped"]
    /\ UNCHANGED <<queue, unfinished, pending_tasks, task_counter, running,
                   completed_count, failed_count, spc, stask, wtask, submitted, accepted,
                   executed, finished, started, storeVars, threadVars, fallbackVars, smartVars, queued_at_shutdown, wread>>

\* _worker, lines 66-73: self._queue.get(timeout=1) hands over an entry
WorkerGet(w) ==
    /\ wpc[w] = "get"
    /\ queue # {}
    /\ wtask' = [wtask EXCEPT ![w] = Smallest(queue)]
    /\ queue' = queue \ {Smallest(queue)}
    /\ wpc' = [wpc EXCEPT ![w] = "call"]
    /\ UNCHANGED <<unfinished, pending_tasks, task_counter, running, completed_count,
                   failed_count, spc, stask, submitted, accepted, executed, finished,
                   started, storeVars, threadVars, fallbackVars, smartVars, queued_at_shutdown, wread>>

\* _worker, lines 67-68: queue.Empty after the timeout, continue
WorkerGetTimeout(w) ==
    /\ wpc[w] = "get"
    /\ queue = {}
    /\ wpc' = [wpc EXCEPT ![w] = "loop"]
    /\ UNCHANGED <<queue, unfinished, pending_tasks, task_counter, running,
                   completed_count, failed_count, spc, stask, wtask, submitted, accepted,
                   executed, finished, started, storeVars, threadVars, fallbackVars, smartVars, queued_at_shutdown, wread>>

\* _worker, lines 76-79: func(*args, **kwargs) is called
WorkerCall(w) ==
    /\ wpc[w] = "call"
    /\ started' = Append(started, wtask[w])
    /\ executed' = Bump(executed, wtask[w].name)
    /\ wpc' = [wpc EXCEPT ![w] = "func"]
    /\ UNCHANGED <<queue, unfinished, pending_tasks, task_counter, running,
                   completed_count, failed_count, spc, stask, wtask, submitted, accepted,
                   finished, storeVars, threadVars, fallbackVars, smartVars, queued_at_shutdown, wread>>

\* _worker, lines 79-87: func returns, or raises and the exception is caught;
\* the worker loads the counter it is about to add 1 to.  The += 1 on
\* self._completed_count / self._failed_count is made outside self._lock: a
\* load and a store, between which another worker can run.
WorkerFuncEnds(w, raised) ==
    /\ wpc[w] = "func"
    /\ finished' = Bump(finished, wtask[w].name)
    /\ wread' = [wread EXCEPT ![w] = IF raised THEN failed_count ELSE completed_count]
    /\ wpc' = [wpc EXCEPT ![w] = IF raised THEN "count_failed" ELSE "count_completed"]
    /\ UNCHANGED <<queue, unfinished, pending_tasks, task_counter, running, spc, stask,
                   completed_count, failed_count, wtask, submitted, accepted, executed,
                   started, storeVars, threadVars, fallbackVars, smartVars, queued_at_shutdown>>

\* _worker, line 82 or 86: the store of the += 1
WorkerCount(w) ==
    /\ wpc[w] \in {"count_failed", "count_completed"}
    /\ completed_count' = IF wpc[w] = "count_completed" THEN wread[w] + 1
                                                         ELSE completed_count
    /\ failed_count' = IF wpc[w] = "count_failed" THEN wread[w] + 1 ELSE failed_count
    /\ wread' = [wread EXCEPT ![w] = 0]
    /\ wpc' = [wpc EXCEPT ![w] = "finally"]
    /\ UNCHANGED <<queue, unfinished, pending_tasks, task_counter, running, spc, stask,
                   wtask, submitted, accepted, executed, finished, started, storeVars,
                   threadVars, fallbackVars, smartVars, queued_at_shutdown>>

\* a finally block that leaves the name in the set
DiscardNothing(pending, name) == pending
\* self._pending_tasks.discard(task_name)
Discard(pending, name) == pending \ {name}

\* _worker, lines 89-92: self._pending_tasks.discard(task_name), under the lock
WorkerDiscard(w) ==
    /\ wpc[w] = "finally"
    /\ pending_tasks' = Discard(pending_tasks, wtask[w].name)
    /\ wpc' = [wpc EXCEPT ![w] = "task_done"]
    /\ UNCHANGED <<queue, unfinished, task_counter, running, completed_count, failed_count,
                   spc, stask, wtask, submitted, accepted, executed, finished, started,
                   storeVars, threadVars, fallbackVars, smartVars, queued_at_shutdown, wread>>

\* _worker, line 93: self._queue.task_done()
WorkerTaskDone(w) ==
    /\ wpc[w] = "task_done"
    /\ unfinished' = unfinished - 1
    /\ wtask' = [wtask EXCEPT ![w] = NoTask]
    /\ wpc' = [wpc EXCEPT ![w] = "loop"]
    /\ UNCHANGED <<queue, pending_tasks, task_counter, running, completed_count,
                   failed_count, spc, stask, submitted, accepted, executed, finished,
                   started, storeVars, threadVars, fallbackVars, smartVars, queued_at_shutdown, wread>>

\* shutdown, line 140: self._running = False
Shutdown ==
    /\ running
    /\ running' = FALSE
    /\ queued_at_shutdown' = queue
    /\ UNCHANGED <<queue, unfinished, pending_tasks, task_counter, completed_count,
                   failed_count, spc, stask, wpc, wtask, submitted, accepted, executed,
                   finished, started, storeVars, threadVars, fallbackVars, smartVars, wread>>

NextQueue ==
    \/ \E s \in Submitters : \E name \in TaskNames : \E priority \in Priorities :
          TotalSubmitted < MaxSubmits /\ SubmitCheck(s, name, priority)
    \/ \E s \in Submitters : SubmitPut(s)
    \/ \E w \in Threads : WorkerLoop(w)
    \/ \E w \in Threads : WorkerGet(w)
    \/ \E w \in Threads : WorkerGetTimeout(w)
    \/ \E w \in Threads : WorkerCall(w)
    \/ \E w \in Threads : \E raised \in BOOLEAN : WorkerFuncEnds(w, raised)
    \/ \E w \in Threads : WorkerCount(w)
    \/ \E w \in Threads : WorkerDiscard(w)
    \/ \E w \in Threads : WorkerTaskDone(w)
    \/ Shutdown

SpecQueue == InitQueue /\ [][NextQueue]_vars

\* ===================================================================
\* Part 4.  test_priority_ordering: one worker, one submitting thread
\* ===================================================================

\* the three submit calls of the test, in program order
PriorityScript ==
    << [name |-> "low", priority |-> LOW],
       [name |-> "high", priority |-> HIGH],
       [name |-> "normal", priority |-> NORMAL] >>

TestThread == "request-0"

\* queue = BackgroundTaskQueue(num_workers=1)
InitOneWorker ==
    /\ QueueStarted({"BackgroundWorker-0"})
    /\ FallbackIdle
    /\ SmartIdle
    /\ ThreadsIdle
    /\ stock_history = {}
    /\ sync_log = {}
    /\ now = [day |-> 1, hour |-> MarketCloseHour - 1]
    /\ call = NoCall

\* the next queue.submit(...) of the test
TestSubmit ==
    /\ TotalSubmitted < Len(PriorityScript)
    /\ SubmitCheck(TestThread, PriorityScript[TotalSubmitted + 1].name,
                   PriorityScript[TotalSubmitted + 1].priority)

\* wait_completion: self._queue.join() returns when no put is unfinished
WaitCompletion(s) ==
    /\ spc[s] = "idle"
    /\ TotalSubmitted = Len(PriorityScript)
    /\ unfinished = 0
    /\ spc' = [spc EXCEPT ![s] = "joined"]
    /\ UNCHANGED <<queue, unfinished, pending_tasks, task_counter, running,
                   completed_count, failed_count, stask, wpc, wtask, submitted, accepted,
                   executed, finished, started, storeVars, threadVars, fallbackVars, smartVars, queued_at_shutdown, wread>>

\* queue.shutdown() at the end of the test
TestShutdown ==
    /\ spc[TestThread] = "joined"
    /\ Shutdown

NextOneWorker ==
    \/ TestSubmit
    \/ SubmitPut(TestThread)
    \/ WaitCompletion(TestThread)
    \/ TestShutdown
    \/ \E w \in Threads : WorkerLoop(w)
    \/ \E w \in Threads : WorkerGet(w)
    \/ \E w \in Threads : WorkerGetTimeout(w)
    \/ \E w \in Threads : WorkerCall(w)
    \/ \E w \in Threads : \E raised \in BOOLEAN : WorkerFuncEnds(w, raised)
    \/ \E w \in Threads : WorkerCount(w)
    \/ \E w \in Threads : WorkerDiscard(w)
    \/ \E w \in Threads : WorkerTaskDone(w)

SpecOneWorker == InitOneWorker /\ [][NextOneWorker]_vars

\* ===================================================================
\* Part 5.  FallbackExecutor.execute, with_retry, AkShare fetch_kline
\* ===================================================================

\* what a provider does when called: raise, return None, return a
\* zero-length value (the {} of the adapters' get_realtime when the request
\* fails), or return data
Outcomes == {"raise", "None", "empty", "data"}
ProviderLists == UNION {[1..n -> Outcomes] : n \in 0..MaxProviders}

StoreIdle ==
    /\ stock_history = {}
    /\ sync_log = {}
    /\ now = [day |-> 1, hour |-> MarketCloseHour - 1]
    /\ call = NoCall

InitFallback ==
    /\ QueueIdle
    /\ ThreadsIdle
    /\ StoreIdle
    /\ SmartIdle
    /\ RetryIdle
    /\ AdapterIdle
    /\ providers \in ProviderLists
    /\ provider_i = 1
    /\ provider_calls = [i \in 1..Len(providers) |-> 0]
    /\ exec_result = NoResult
    /\ exec_pc = "loop"

\* result is not None
IsNotNone(outcome) == outcome # "None"

\* execute, lines 59-72: one pass of the for loop
ExecuteProvider ==
    /\ exec_pc = "loop"
    /\ provider_i <= Len(providers)
    /\ provider_calls' = [provider_calls EXCEPT ![provider_i] = @ + 1]
    /\ IF providers[provider_i] # "raise" /\ IsNotNone(providers[provider_i])
       THEN /\ exec_result' = [kind |-> providers[provider_i], from |-> provider_i]
            /\ exec_pc' = "returned"
            /\ UNCHANGED provider_i
       ELSE /\ provider_i' = provider_i + 1
            /\ UNCHANGED <<exec_result, exec_pc>>
    /\ UNCHANGED <<providers, retryVars, adapterVars, storeVars, threadVars, queueVars, smartVars>>

\* execute, lines 74-76: the loop is over, return None
ExecuteExhausted ==
    /\ exec_pc = "loop"
    /\ provider_i > Len(providers)
    /\ exec_result' = [kind |-> "None", from |-> 0]
    /\ exec_pc' = "returned"
    /\ UNCHANGED <<providers, provider_i, provider_calls, retryVars, adapterVars,
                   storeVars, threadVars, queueVars, smartVars>>

NextFallback == ExecuteProvider \/ ExecuteExhausted

SpecFallback == InitFallback /\ [][NextFallback]_vars

\* -------------------------------------------------------------------

InitRetry ==
    /\ QueueIdle
    /\ ThreadsIdle
    /\ StoreIdle
    /\ SmartIdle
    /\ ExecIdle
    /\ max_retries \in 0..MAX_RETRIES
    /\ attempt = 0
    /\ call_count = 0
    /\ current_delay = RETRY_DELAY
    /\ slept = 0
    /\ retry_result = NoResult
    /\ retry_pc = "call"
    /\ ak_attempt = 0
    /\ ak_calls = 0
    /\ ak_delay = 2
    /\ ak_result = NoResult
    /\ ak_pc = "import"

\* a loop that goes round once more
RangeOneMore(m) == m + 2
\* range(max_retries + 1)
Range(m) == m + 1

\* wrapper, lines 105-118: one call of func; on an exception the branch on
\* attempt < max_retries, and past the last attempt the return None
RetryCall(raised) ==
    /\ retry_pc = "call"
    /\ call_count' = call_count + 1
    /\ IF ~raised
       THEN /\ retry_result' = [kind |-> "data", from |-> call_count + 1]
            /\ retry_pc' = "returned"
            /\ UNCHANGED attempt
       ELSE IF attempt < max_retries
       THEN /\ retry_pc' = "sleep"
            /\ UNCHANGED <<attempt, retry_result>>
       ELSE IF attempt + 1 < Range(max_retries)
       THEN /\ attempt' = attempt + 1
            /\ UNCHANGED <<retry_pc, retry_result>>
       ELSE /\ attempt' = attempt + 1
            /\ retry_result' = [kind |-> "None", from |-> 0]
            /\ retry_pc' = "returned"
    /\ UNCHANGED <<max_retries, current_delay, slept, execVars, adapterVars, storeVars,
                   threadVars, queueVars, smartVars>>

\* wrapper, lines 113-114: time.sleep(current_delay); current_delay *= backoff
RetrySleep ==
    /\ retry_pc = "sleep"
    /\ slept' = slept + current_delay
    /\ current_delay' = current_delay * RETRY_BACKOFF
    /\ attempt' = attempt + 1
    /\ retry_pc' = "call"
    /\ UNCHANGED <<max_retries, call_count, retry_result, execVars, adapterVars, storeVars,
                   threadVars, queueVars, smartVars>>

\* fetch_kline, lines 71-76: import akshare, or return None without it
AkImport(installed) ==
    /\ ak_pc = "import"
    /\ IF installed
       THEN ak_pc' = "call" /\ UNCHANGED ak_result
       ELSE ak_pc' = "returned" /\ ak_result' = [kind |-> "None", from |-> 0]
    /\ UNCHANGED <<ak_attempt, ak_calls, ak_delay, execVars, retryVars, storeVars,
                   threadVars, queueVars, smartVars>>

\* fetch_kline, lines 80-124: one call of ak.stock_zh_a_hist
AkCall(outcome) ==
    /\ ak_pc = "call"
    /\ ak_calls' = ak_calls + 1
    /\ IF outcome = "data"
       THEN /\ ak_result' = [kind |-> "data", from |-> ak_calls + 1]
            /\ ak_pc' = "returned"
            /\ UNCHANGED ak_attempt
       ELSE IF outcome \in {"None", "empty"}
       THEN /\ ak_result' = [kind |-> "None", from |-> 0]
            /\ ak_pc' = "returned"
            /\ UNCHANGED ak_attempt
       ELSE IF ak_attempt < AkMaxRetries
       THEN /\ ak_pc' = "sleep"
            /\ UNCHANGED <<ak_attempt, ak_result>>
       ELSE /\ ak_attempt' = ak_attempt + 1
            /\ ak_result' = [kind |-> "None", from |-> 0]
            /\ ak_pc' = "returned"
    /\ UNCHANGED <<ak_delay, execVars, retryVars, storeVars, threadVars, queueVars, smartVars>>

\* fetch_kline, lines 118-119: time.sleep(delay); delay *= 2
AkSleep ==
    /\ ak_pc = "sleep"
    /\ ak_delay' = ak_delay * 2
    /\ ak_attempt' = ak_attempt + 1
    /\ ak_pc' = "call"
    /\ UNCHANGED <<ak_calls, ak_result, execVars, retryVars, storeVars, threadVars,
                   queueVars, smartVars>>

NextRetry ==
    \/ \E raised \in BOOLEAN : RetryCall(raised)
    \/ RetrySleep
    \/ \E installed \in BOOLEAN : AkImport(installed)
    \/ \E outcome \in Outcomes : AkCall(outcome)
    \/ AkSleep

SpecRetry == InitRetry /\ [][NextRetry]_vars

\* ------------------------------------------------ properties of Part 1

\* the dates of a batch, and the bar it carries for a date (its first one)
BatchDates(df) == {df[i].date : i \in 1..Len(df)}
FirstBar(df, date) ==
    df[CHOOSE i \in 1..Len(df) :
          df[i].date = date /\ \A j \in 1..(i - 1) : df[j].date # date]
RowsOf(hist, code, date) == {x \in hist : x.code = code /\ x.date = date}

\* C2: once is_full_sync_completed(S) is true it is true in every later state
FullSyncLatch ==
    [][\A code \in Codes :
          is_full_sync_completed(sync_log, code) => is_full_sync_completed(sync_log', code)]_vars

\* C4: for every symbol with stored bars, the first date is not after the last
\* one and sync_log's record_count is the number of stored rows
RecordCountMatchesRows ==
    \A code \in Codes :
        ExistingDates(stock_history, code) # {} =>
            /\ get_first_data_date(stock_history, code) <= get_last_data_date(stock_history, code)
            /\ \E x \in SyncRows(sync_log, code) :
                  x.record_count = RowCount(stock_history, code)

SaveIsUnionKeepingPriorRows ==
    \A code \in Codes : \A df \in ProviderFrames(now) :
        LET after == SaveResult(stock_history, sync_log, now, code, df).hist
        IN  /\ ExistingDates(after, code) = ExistingDates(stock_history, code) \cup BatchDates(df)
            /\ \A x \in stock_history : (x.code = code /\ x.date # Today(now)) => x \in after
            /\ \A x \in after \ stock_history :
                  /\ x.code = code
                  /\ x.date \in BatchDates(df)
                  /\ x.ohlcv = FirstBar(df, x.date).ohlcv
                  /\ (x.date \in ExistingDates(stock_history, code) => x.date = Today(now))

\* a save has added rows and kept a stored row, not of today, for which its
\* batch carried other values
SaveKeptDifferingRow ==
    call.op = "save" /\ call.kept /\ call.ret > 0

\* C9: for a batch with no bar of today, a second save_stock_data(S, bs),
\* right after the first or at any later time, leaves stock_history and
\* sync_log as the first call left them and returns 0
SaveTwiceIsSaveOnce ==
    \A code \in Codes : \A df \in ProviderFrames(now) :
        Today(now) \notin BatchDates(df) =>
            LET first == SaveResult(stock_history, sync_log, now, code, df)
            IN  \A t \in {now} \cup LaterTimes(now) :
                    LET second == SaveResult(first.hist, first.log, t, code, df)
                    IN  /\ second.hist = first.hist
                        /\ second.log = first.log
                        /\ second.ret = 0

\* a save of a batch with bars, none of today, all stored already: it returned 0
SaveOfStoredBatch ==
    call.op = "save" /\ call.rows > 0 /\ call.today = "absent" /\ call.ret = 0

\* ------------------------------------------------ properties of Part 2

\* C3: stock_history holds at most one row for each (code, date)
OneRowPerKey ==
    \A x \in stock_history : \A y \in stock_history :
        (x.code = y.code /\ x.date = y.date) => x = y

\* two threads inserted the same (code, date); the later insert was refused
InsertRefused ==
    \E t \in Threads : tres[t] = "IntegrityError"

\* C5: when both calls have returned, neither with an exception caught,
\* stock_history and sync_log are what the two calls leave when run one after
\* the other, in one of the two orders
ConcurrentSavesSerializable ==
    (\A t \in Threads : tpc[t] = "done" /\ tres[t] \in {"ok", "zero"}) =>
        \E a \in Threads : \E b \in Threads \ {a} :
            LET first == SaveRows(hist0, log0, now, tcode[a], trows[a])
                second == SaveRows(first.hist, first.log, now, tcode[b], trows[b])
            IN  stock_history = second.hist /\ sync_log = second.log

\* C6: while one call is alone and has not returned its row count, also when
\* it has failed or the process has been killed, stock_history and sync_log
\* are as they were before the call
UpsertAtomic ==
    \A t \in Threads :
        (/\ tpc[t] # "idle"
         /\ tres[t] # "ok"
         /\ \A u \in Threads \ {t} : tpc[u] = "idle")
        => (stock_history = hist0 /\ sync_log = log0)

\* ------------------------------------------------ properties of Part 3

\* C1: a submit of name n made while an accepted task named n has not
\* completed is dropped: nothing is enqueued and no counter is drawn; at
\* most one accepted task per name is uncompleted, and the body of a name
\* runs no more often than the name was accepted.
DuplicateSubmitDropped ==
    /\ [](\A n \in TaskNames : /\ accepted[n] <= finished[n] + 1
                               /\ executed[n] <= accepted[n]
                               /\ finished[n] <= executed[n])
    /\ [][\A n \in TaskNames :
            (submitted'[n] = submitted[n] + 1 /\ accepted[n] > finished[n])
                => /\ accepted' = accepted
                   /\ queue' = queue
                   /\ task_counter' = task_counter
                   /\ spc' = spc]_vars

\* C1 witness: a name submitted twice before its first task completed, one
\* of the two accepted, and the body running, once
DuplicateDroppedWhileRunning ==
    \E n \in TaskNames :
        /\ submitted[n] >= 2
        /\ accepted[n] = 1
        /\ executed[n] = 1
        /\ finished[n] = 0

\* every task whose submit drew a counter and that is known to the queue,
\* a submitter or a worker
AcceptedTasks ==
    queue
    \cup {stask[s] : s \in {x \in Submitters : spc[x] = "put"}}
    \cup {wtask[w] : w \in {x \in Threads : wpc[x] \notin {"absent", "loop", "get", "stopped"}}}
    \cup {started[i] : i \in DOMAIN started}

\* C10: of two accepted tasks of equal priority, the one with the smaller
\* counter is the first whose body is called.
EqualPriorityFIFO ==
    \A i \in DOMAIN started : \A y \in AcceptedTasks :
        (y.priority = started[i].priority /\ y.counter < started[i].counter)
            => \E j \in 1..(i - 1) : started[j] = y

\* a step in which worker w takes an entry from the queue
Dequeues(w) == wpc[w] = "get" /\ wpc'[w] = "call"
\* a step in which worker w calls the body of its task
StartsBody(w) == wpc[w] = "call" /\ wpc'[w] = "func"

ExecutionOrderHighNormalLow ==
    \A i \in DOMAIN started : started[i].name = <<"high", "normal", "low">>[i]

\* the names of the accepted tasks not yet through the worker's finally block:
\* drawn a counter and not yet put, queued, or held by a worker
LiveNames ==
    {stask[s].name : s \in {x \in Submitters : spc[x] = "put"}}
    \cup {e.name : e \in queue}
    \cup {wtask[w].name : w \in {x \in Threads : wpc[x] \in {"call", "func", "count_failed", "count_completed",
                                                  "finally"}}}

ShutdownDrainsQueue ==
    (\A w \in Threads : wpc[w] \in {"stopped", "absent"})
        => \A e \in queued_at_shutdown : \E i \in DOMAIN started : started[i] = e

\* C15: when the function of a task raises, no submitting thread is
\* affected, the failed counter grows by one and the completed counter stays,
\* and the worker goes on to its finally block and back to the loop; a worker
\* stops only after shutdown.
TaskFailureIsolated ==
    /\ [](\A w \in Threads : wpc[w] = "stopped" => ~running)
    /\ [][\A w \in Threads :
            /\ (wpc[w] = "func" /\ wpc'[w] = "count_failed")
                  => spc' = spc /\ stask' = stask /\ unfinished' = unfinished
            /\ (wpc[w] = "count_failed" /\ wpc'[w] # "count_failed")
                  => /\ wpc'[w] = "finally"
                     /\ failed_count' = failed_count + 1
                     /\ completed_count' = completed_count
                     /\ spc' = spc]_vars

\* ------------------------------------------------ properties of Part 5

\* a provider succeeds when it neither raises nor returns an empty result
Succeeds(outcome) == outcome = "data"
FirstSuccess == SetMin({i \in 1..Len(providers) : Succeeds(providers[i])})

\* C16: execute returns the result of the lowest-index provider that neither
\* raises nor returns an empty result; every provider before it was called
\* exactly once, and no provider after it was called.
FirstSuccessWins ==
    (exec_pc = "returned" /\ \E i \in 1..Len(providers) : Succeeds(providers[i]))
        => /\ exec_result = [kind |-> "data", from |-> FirstSuccess]
           /\ \A i \in 1..Len(providers) :
                 provider_calls[i] = IF i <= FirstSuccess THEN 1 ELSE 0

\* C17: a provider that returns None or a zero-length value is passed over:
\* execute does not return its result, and calls the next provider.
EmptyResultSkipped ==
    /\ exec_pc = "returned" => exec_result.kind # "empty"
    /\ \A i \in 1..Len(providers) :
          (exec_pc = "returned" /\ provider_calls[i] = 1
              /\ providers[i] \in {"None", "empty"} /\ i < Len(providers))
             => provider_calls[i + 1] = 1

\* C18: execute ends with a value or with None, and with None exactly when
\* every provider raised or returned an empty result.
NoneExactlyWhenAllFailed ==
    exec_pc = "returned" =>
        /\ exec_result.kind \in {"data", "empty", "None"}
        /\ exec_result.kind = "None"
              <=> \A i \in 1..Len(providers) : ~Succeeds(providers[i])

\* C19: the wrapped function is called at most max_retries + 1 times; a
\* returned value is the value of the last call made, which is the first
\* that did not raise; None is returned after max_retries + 1 calls, all of
\* which raised.
RetryUntilFirstSuccess ==
    /\ call_count <= max_retries + 1
    /\ retry_pc = "returned" =>
          /\ retry_result.kind \in {"data", "None"}
          /\ retry_result.kind = "data" => retry_result.from = call_count
          /\ retry_result.kind = "None" => call_count = max_retries + 1
    /\ retry_pc # "returned" => call_count = attempt + (IF retry_pc = "sleep" THEN 1 ELSE 0)

\* C19 witness: the wrapper returned the value of the call made after
\* max_retries failures, max_retries at least 1
SucceededOnLastRetry ==
    /\ retry_pc = "returned"
    /\ retry_result.kind = "data"
    /\ max_retries >= 1
    /\ call_count = max_retries + 1

\* C20: with_retry at its default max_retries, and AkShare's fetch_kline,
\* make at most three upstream calls.
AtMostThreeAttempts ==
    /\ max_retries = MAX_RETRIES => call_count <= 3
    /\ ak_calls <= 3

\* ===================================================================
\* Part 6.  get_stock_data_smart and the two background tasks it submits
\*
\* The days before day 1 are the day numbers 0, -1, ... down to EarliestDay;
\* a date that is None is told from day 0 by the table having no row.
\* A bar series (a DataFrame of bars) is a sequence of [date, ohlcv]; None
\* and the empty DataFrame are both <<>> where the code treats them alike.
\* get_stock_data_smart runs on the calling thread to its return in one
\* step.  _background_incremental_update runs on a worker in one step,
\* _background_backfill likewise.  All modelled days are trading
\* days, and the clock is read at the full hours of Hours.
\* ===================================================================

\* ------------------------------------------------------------------ bounds
\* the windows asked for: 1..MaxWindow days, and LargeWindow days
MaxWindow == 2
LargeWindow == 641
\* the days before day 1 of which the bar providers have a bar
MaxHistory == 10
\* the bars of one page of _fetch_backward_from_tencent
PageSize == 1

\* ------------------------------------------------------- program constants
\* data_config.DATA_COMPLETENESS_RATIO = 0.8
DATA_COMPLETENESS_RATIO == [num |-> 8, den |-> 10]
\* data_config.BACKFILL_MAX_ITERATIONS
BACKFILL_MAX_ITERATIONS == 10
\* date_utils.AFTERNOON_START, AFTERNOON_END: "13:00", "15:00"
AFTERNOON_START == 13
AFTERNOON_END == 15
\* get_last_trading_day: before 15:30 the last trading day is yesterday
LastTradingDayHour == 15
\* _fetch_full_history: if days > 640
FullHistoryDays == 640

Windows == (1..MaxWindow) \cup {LargeWindow}
EarliestDay == 1 - MaxHistory

\* task_name=f"增量更新-{code}", task_name=f"历史补全-{code}"
IncrementalName(code) == "incr-600519"
BackfillName(code) == "backfill-600519"

\* what one fetch_kline call answers: None, an empty DataFrame, or bars
Replies == {"None", "empty", "data"}
\* the answers of Tencent to the calls of the retry loop; an answer after the
\* first one with bars is never asked for
TencentReplies ==
    {a \in [1..MAX_RETRIES -> {"None", "data"}] :
        \A i \in 1..MAX_RETRIES : \A j \in i..MAX_RETRIES : a[i] = "data" => a[j] = "data"}
\* the answers of the three providers to one cold fetch; an answer never
\* asked for is None
ProviderReplies ==
    {p \in [tencent : TencentReplies, eastmoney : Replies, akshare : Replies] :
        /\ p.tencent[MAX_RETRIES] = "data" => p.eastmoney = "None"
        /\ (p.tencent[MAX_RETRIES] = "data" \/ p.eastmoney = "data") => p.akshare = "None"}

\* the daily bars the providers have at time t, one per day from EarliestDay
\* to today, today's bar standing at v and the bars of the days before settled
MarketBars(t, v) ==
    [i \in 1..(Today(t) - EarliestDay + 1) |->
        [date |-> EarliestDay + i - 1,
         ohlcv |-> IF EarliestDay + i - 1 = Today(t) THEN v ELSE 1]]
\* fetch_kline(code, days) answering with bars: the latest days of them
LatestBars(bars, days) ==
    IF Len(bars) <= days THEN bars ELSE SubSeq(bars, Len(bars) - days + 1, Len(bars))
\* what the quotation service has for the symbol: nothing (0), or its price now
Quotes == {0} \cup Vals

\* -------------------------------------------------------------- the clock
\* utils.date_utils.is_trading_time, on a trading day at a full hour of the afternoon
is_trading_time(t) == AFTERNOON_START <= t.hour /\ t.hour <= AFTERNOON_END

\* get_last_trading_day
get_last_trading_day(t) ==
    IF t.hour < LastTradingDayHour \/ t.hour = LastTradingDayHour THEN t.day - 1 ELSE t.day

\* needs_update(last_date), last_date not None
needs_update(last_date, t) == last_date < get_last_trading_day(t)

\* _is_data_stale(code)
is_data_stale(log, t, code) ==
    IF is_trading_time(t) THEN FALSE
    ELSE \E x \in SyncRows(log, code) :
            /\ x.last_data_date = Today(t)
            /\ TimeLess(x.updated_at, MarketCloseTime(t))
            /\ TimeLess(MarketCloseTime(t), t)

\* ------------------------------------------------------------ get_stock_data
RECURSIVE SortByDate(_)
\* df.sort_values('date').reset_index(drop=True)
SortByDate(rows) ==
    IF rows = {} THEN <<>>
    ELSE LET r == CHOOSE x \in rows : \A y \in rows : x.date <= y.date
         IN  <<r>> \o SortByDate(rows \ {r})

\* the SELECT without its LIMIT
get_stock_data_unlimited(hist, code, days) ==
    SortByDate({[date |-> x.date, ohlcv |-> x.ohlcv] : x \in {y \in hist : y.code = code}})
\* get_stock_data(code, days): SELECT ... WHERE code = ? ORDER BY date DESC
\* LIMIT days, sorted ascending; None (<<>>) when no row is selected
get_stock_data(hist, code, days) ==
    LET all == SortByDate({[date |-> x.date, ohlcv |-> x.ohlcv] :
                                x \in {y \in hist : y.code = code}})
        n == Len(all)
    IN  IF n <= days THEN all ELSE SubSeq(all, n - days + 1, n)

\* int(days * DATA_COMPLETENESS_RATIO)
Threshold(days) == (days * DATA_COMPLETENESS_RATIO.num) \div DATA_COMPLETENESS_RATIO.den

\* local_data is not None and len(local_data) >= int(days * DATA_COMPLETENESS_RATIO)
Sufficient(local_data, days) == local_data # <<>> /\ Len(local_data) >= Threshold(days)

\* ------------------------------------------------------ _merge_realtime_data
\* the public methods of class RealtimeQuotationService
RealtimeServiceMethods ==
    {"get_realtime", "get_market_snapshot", "get_stock_codes", "get_intraday", "stock_count"}

SeriesDates(data) == {data[i].date : i \in 1..Len(data)}

\* _merge_realtime_data(code, data) at time t, quote being what the quotation
\* service has.  service.get_realtime_with_fallback(code) is a call of a
\* method the class does not have: it raises AttributeError, which the
\* except clause of line 616 catches, and data is returned as it came.
merge_realtime_data(data, t, quote) ==
    IF ~is_trading_time(t) THEN data
    ELSE IF SetMax(SeriesDates(data)) >= Today(t) THEN data
    ELSE IF "get_realtime_with_fallback" \notin RealtimeServiceMethods THEN data
    ELSE IF quote = 0 THEN data
    ELSE Append(data, [date |-> Today(t), ohlcv |-> quote])

\* ------------------------------------------------------------ the cold fetch
\* initial_data is None or initial_data.empty
Failed(reply) == reply \in {"None", "empty"}

\* a loop of one pass
OneAttempt(tencent) == 1
\* for attempt in range(MAX_RETRIES): the number of fetch_kline calls made
TencentAttempts(tencent) ==
    IF \E i \in 1..MAX_RETRIES : ~Failed(tencent[i])
    THEN SetMin({i \in 1..MAX_RETRIES : ~Failed(tencent[i])})
    ELSE MAX_RETRIES

\* lines 469-494: Tencent up to MAX_RETRIES times, then Eastmoney, then
\* AkShare, each only if initial_data is still None or empty: the last reply
\* and the providers called, in order
ColdFetch(tencent, eastmoney, akshare) ==
    LET n == TencentAttempts(tencent)
        r1 == tencent[n]
        c1 == [i \in 1..n |-> "tencent"]
        r2 == IF Failed(r1) THEN eastmoney ELSE r1
        c2 == IF Failed(r1) THEN Append(c1, "eastmoney") ELSE c1
        r3 == IF Failed(r2) THEN akshare ELSE r2
        c3 == IF Failed(r2) THEN Append(c2, "akshare") ELSE c2
    IN  [reply |-> r3, calls |-> c3]

\* ------------------------------------------------- submit_background_task
QueueNow ==
    [queue |-> queue, unfinished |-> unfinished, pending_tasks |-> pending_tasks,
     task_counter |-> task_counter, submitted |-> submitted, accepted |-> accepted]

\* BackgroundTaskQueue.submit(func, code, task_name=name, priority=priority)
\* run to its return on the queue q
SubmitTo(q, name, priority) ==
    IF name \in q.pending_tasks
    THEN [q EXCEPT !.submitted = Bump(@, name)]
    ELSE [q EXCEPT !.submitted = Bump(@, name),
                   !.accepted = Bump(@, name),
                   !.pending_tasks = @ \cup {name},
                   !.task_counter = @ + 1,
                   !.queue = @ \cup {[priority |-> priority,
                                      counter |-> q.task_counter + 1,
                                      name |-> name]},
                   !.unfinished = @ + 1]

RECURSIVE SubmitAll(_, _)
\* the submit calls of one get_stock_data_smart call, in order
SubmitAll(q, submits) ==
    IF submits = <<>> THEN q
    ELSE SubmitAll(SubmitTo(q, Head(submits).name, Head(submits).priority), Tail(submits))

\* the submit calls as smart records them: name, priority, and whether the
\* name was not pending
Recorded(submits) ==
    [i \in 1..Len(submits) |->
        [name |-> submits[i].name, priority |-> submits[i].priority,
         accepted |-> submits[i].name \notin pending_tasks]]

\* lines 442-458: the tasks the warm path submits
WarmSubmits(hist, log, t, code) ==
    LET last_date == get_last_data_date(hist, code)
    IN  (IF ExistingDates(hist, code) # {}
             /\ (needs_update(last_date, t) \/ is_data_stale(log, t, code))
         THEN <<[name |-> IncrementalName(code), priority |-> HIGH]>> ELSE <<>>)
        \o (IF ~is_full_sync_completed(log, code)
            THEN <<[name |-> BackfillName(code), priority |-> LOW]>> ELSE <<>>)

\* a cold path that submits nothing
ColdSubmitsNothing(code) == <<>>
\* lines 501-506: the task the cold path submits once it has saved
ColdSubmits(code) == <<[name |-> BackfillName(code), priority |-> LOW]>>

\* the queue after the submit calls of one get_stock_data_smart call
Submitted(submits) ==
    \E q \in {SubmitAll(QueueNow, submits)} :
        /\ queue' = q.queue
        /\ unfinished' = q.unfinished
        /\ pending_tasks' = q.pending_tasks
        /\ task_counter' = q.task_counter
        /\ submitted' = q.submitted
        /\ accepted' = q.accepted

\* lines 437-464: local_data is sufficient
WarmPath(code, days, include_realtime, quote, local_data) ==
    LET submits == WarmSubmits(stock_history, sync_log, now, code)
    IN  /\ smart' = [path |-> "warm", days |-> days, include_realtime |-> include_realtime,
                     count |-> Len(local_data), fetched |-> <<>>,
                     ret |-> IF include_realtime
                             THEN merge_realtime_data(local_data, now, quote)
                             ELSE local_data,
                     calls |-> <<>>, submits |-> Recorded(submits),
                     quote |-> IF include_realtime /\ is_trading_time(now) THEN quote ELSE 0]
        /\ Submitted(submits)
        /\ UNCHANGED <<stock_history, sync_log>>

\* lines 466-515: local_data is not sufficient; the providers answer p, with
\* the latest days bars of bars where the answer is "data"
ColdPath(code, days, include_realtime, quote, local_data, p, bars) ==
    LET f == ColdFetch(p.tencent, p.eastmoney, p.akshare)
        initial_data == IF Failed(f.reply) THEN <<>> ELSE LatestBars(bars, days)
        submits == IF initial_data # <<>> THEN ColdSubmits(code) ELSE <<>>
    IN  /\ smart' = [path |-> "cold", days |-> days, include_realtime |-> include_realtime,
                     count |-> Len(local_data), fetched |-> initial_data,
                     ret |-> IF initial_data = <<>> THEN <<>>
                             ELSE IF include_realtime
                                  THEN merge_realtime_data(initial_data, now, quote)
                                  ELSE initial_data,
                     calls |-> f.calls, submits |-> Recorded(submits),
                     quote |-> IF include_realtime /\ is_trading_time(now) THEN quote ELSE 0]
        /\ \E r \in {SaveResult(stock_history, sync_log, now, code, initial_data)} :
                stock_history' = r.hist /\ sync_log' = r.log
        /\ Submitted(submits)

\* get_stock_data_smart(code, days, include_realtime) on the calling thread,
\* the quotation service having quote; the providers, when asked, answer
\* with any of ProviderReplies
GetStockDataSmart(code, days, include_realtime, quote) ==
    LET local_data == get_stock_data(stock_history, code, days)
    IN  /\ IF Sufficient(local_data, days)
           THEN WarmPath(code, days, include_realtime, quote, local_data)
           ELSE \E p \in ProviderReplies : \E v \in Vals :
                    ColdPath(code, days, include_realtime, quote, local_data, p,
                             MarketBars(now, v))
        /\ UNCHANGED <<now, call, backfill, fusion, running, completed_count, failed_count, spc,
                       stask, wpc, wtask, wread, executed, finished, started,
                       queued_at_shutdown, threadVars, fallbackVars, serviceVars>>

\* ---------------------------------------------------- the background tasks
\* _worker around one task: the entry is got, the function called, and in
\* the finally clause the name leaves _pending_tasks and task_done is called
TaskTaken(e) ==
    /\ e \in queue
    /\ e = Smallest(queue)
    /\ queue' = queue \ {e}
    /\ executed' = Bump(executed, e.name)
TaskReturned(name) ==
    /\ pending_tasks' = Discard(pending_tasks, name)
    /\ completed_count' = completed_count + 1
    /\ unfinished' = unfinished - 1
    /\ finished' = Bump(finished, name)

\* _fetch_incremental(code, last_date): the provider's bars after last_date,
\* None when last_date is today or later
FetchIncremental(bars, last_date, t) ==
    IF last_date >= Today(t) THEN <<>>
    ELSE SelectSeq(bars, LAMBDA b : b.date > last_date)

\* a worker runs _background_incremental_update(code), the providers having
\* bars, or failing (<<>>)
RunIncrementalUpdate(code, bars) ==
    LET last_date == get_last_data_date(stock_history, code)
        fetch_start == IF is_data_stale(sync_log, now, code) THEN last_date - 1 ELSE last_date
        new_data == IF ExistingDates(stock_history, code) = {} THEN <<>>
                    ELSE FetchIncremental(bars, fetch_start, now)
        r == SaveResult(stock_history, sync_log, now, code, new_data)
    IN  /\ \E e \in queue : e.name = IncrementalName(code) /\ TaskTaken(e)
        /\ TaskReturned(IncrementalName(code))
        /\ stock_history' = r.hist
        /\ sync_log' = r.log
        /\ UNCHANGED <<now, call, smart, backfill, fusion,
                       task_counter, running, failed_count,
                       spc, stask, wpc, wtask, wread, submitted, accepted, started,
                       queued_at_shutdown, threadVars, fallbackVars, serviceVars>>

\* _fetch_backward_from_tencent(code, first_date): the latest PageSize bars
\* dated before first_date, None (<<>>) when there is none or the request fails
BackwardPage(bars, first_date) ==
    LatestBars(SelectSeq(bars, LAMBDA b : b.date < first_date), PageSize)

RECURSIVE BackfillLoop(_, _, _, _, _, _)
\* for i in range(BACKFILL_MAX_ITERATIONS), lines 550-561, from pass i on: the
\* store the loop leaves, the pages it saved, and whether a page came empty
BackfillLoop(hist, log, t, code, bars, i) ==
    IF i = BACKFILL_MAX_ITERATIONS
    THEN [hist |-> hist, log |-> log, pages |-> i, empty_page |-> FALSE]
    ELSE LET backward_data == BackwardPage(bars, get_first_data_date(hist, code))
             r == SaveResult(hist, log, t, code, backward_data)
         IN  IF backward_data = <<>>
             THEN [hist |-> hist, log |-> log, pages |-> i, empty_page |-> TRUE]
             ELSE BackfillLoop(r.hist, r.log, t, code, bars, i + 1)

\* a worker runs _background_backfill(code), the provider having bars, or
\* failing (<<>>); backfill records the run
RunBackfill(code, bars) ==
    /\ \E e \in queue : e.name = BackfillName(code) /\ TaskTaken(e)
    /\ TaskReturned(BackfillName(code))
    /\ IF ExistingDates(stock_history, code) = {}
       THEN /\ backfill' = [NoBackfill EXCEPT !.ran = TRUE,
                                              !.saturated = backfill.saturated]
            /\ UNCHANGED <<stock_history, sync_log>>
       ELSE \E l \in {BackfillLoop(stock_history, sync_log, now, code, bars, 0)} :
            \E marked \in {is_full_sync_completed(MarkFullSync(l.log, code), code)} :
                /\ stock_history' = l.hist
                /\ sync_log' = MarkFullSync(l.log, code)
                /\ backfill' = [ran |-> TRUE, pages |-> l.pages,
                                empty_page |-> l.empty_page, marked |-> marked,
                                saturated |-> backfill.saturated
                                                \/ (l.empty_page /\ marked)]
    /\ UNCHANGED <<now, call, smart, fusion, task_counter, running, failed_count, spc, stask,
                   wpc, wtask, wread, submitted, accepted, started,
                   queued_at_shutdown, threadVars, fallbackVars, serviceVars>>

InitSmart ==
    /\ QueueIdle
    /\ ThreadsIdle
    /\ FallbackIdle
    /\ StoreIdle
    /\ SmartIdle

\* the quotation service matters to a call that fuses in a trading session
QuotesAsked(include_realtime, t) ==
    IF include_realtime /\ is_trading_time(t) THEN Quotes ELSE {0}

\* the bars the providers have now, or <<>> when they fail
ProviderBars == {<<>>} \cup {MarketBars(now, v) : v \in Vals}

NextSmart ==
    \/ \E code \in Codes : \E days \in Windows : \E include_realtime \in BOOLEAN :
       \E quote \in QuotesAsked(include_realtime, now) :
          /\ TotalSubmitted < MaxSubmits
          /\ GetStockDataSmart(code, days, include_realtime, quote)
    \/ \E code \in Codes : \E bars \in ProviderBars : RunIncrementalUpdate(code, bars)
    \/ \E code \in Codes : \E bars \in ProviderBars : RunBackfill(code, bars)
    \/ Tick

SpecSmart == InitSmart /\ [][NextSmart]_vars

\* ===================================================================
\* Part 7.  Live fusion: LocalDataService._merge_realtime_data and
\*          RealtimeKlineService._merge_realtime, applied once and again
\*
\* A K-line of RealtimeKlineService is [time, open, high, low, close,
\* volume]; a quote carries now, open, high, low, turnover and date.  A quote
\* that is None or {} is a quote whose now is 0: _merge_realtime treats the
\* three alike.
\* ===================================================================

Prices == 0..MaxVal
Kline ==
    [time : {MaxDay - 1, MaxDay}, open : {1}, high : Vals, low : Vals, close : Vals,
     volume : {1}]
\* the history of _get_history_klines: ascending, one K-line per day
Histories ==
    {<<>>} \cup {<<k>> : k \in Kline}
        \cup {<<a, b>> : a \in {k \in Kline : k.time = MaxDay - 1},
                         b \in {k \in Kline : k.time = MaxDay}}
RealtimeQuotes ==
    [now : Prices, open : {1}, high : Vals, low : Prices, turnover : {MaxVal},
     date : {MaxDay - 1, MaxDay}]

Max2(a, b) == IF a >= b THEN a ELSE b
Min2(a, b) == IF a <= b THEN a ELSE b

\* _format_realtime_to_kline(quote): None when quote.now is 0
format_realtime_to_kline(quote) ==
    [time |-> quote.date, open |-> quote.open, high |-> quote.high, low |-> quote.low,
     close |-> quote.now, volume |-> quote.turnover]

\* a search that finds no K-line of today
TodayIndexNever(history, today) == 0
\* for i, kline in enumerate(result): if kline.get('time') == today: the
\* first such i, 0 when there is none
TodayIndex(history, today) ==
    IF \E i \in 1..Len(history) : history[i].time = today
    THEN SetMin({i \in 1..Len(history) : history[i].time = today})
    ELSE 0

\* RealtimeKlineService._merge_realtime(history, realtime), today being the
\* day of datetime.now()
merge_realtime(history, realtime, today) ==
    IF realtime.now = 0 THEN history
    ELSE IF realtime.date # today THEN history
    ELSE LET realtime_kline == format_realtime_to_kline(realtime)
             i == TodayIndex(history, today)
         IN  IF i # 0
             THEN [history EXCEPT ![i] =
                      [@ EXCEPT !.close = realtime_kline.close,
                                !.high = Max2(@, realtime_kline.high),
                                !.low = IF realtime_kline.low > 0
                                        THEN Min2(@, realtime_kline.low) ELSE @,
                                !.volume = realtime_kline.volume]]
             ELSE IF realtime_kline.close > 0
                  THEN Append(history, [time |-> today,
                                        open |-> realtime_kline.open,
                                        high |-> realtime_kline.high,
                                        low |-> realtime_kline.low,
                                        close |-> realtime_kline.close,
                                        volume |-> realtime_kline.volume])
                  ELSE history

\* the times a fusion runs at
FusionTimes == {[day |-> d, hour |-> h] : d \in Dates, h \in Hours}
\* the series handed to _merge_realtime_data, of a provider or of the store:
\* not empty, ascending, one bar per day
BarSeries ==
    {df \in DataFrames :
        /\ df # <<>>
        /\ \A i \in 1..Len(df) : \A j \in 1..Len(df) : i < j => df[i].date < df[j].date}
\* what is fused, on the day today
FusionInputs(today) ==
    {[NoFusion EXCEPT !.service = "bar", !.pc = "start", !.data = d, !.quote = q, !.t = t] :
        d \in BarSeries, q \in RealtimeQuotes, t \in FusionTimes}
    \cup
    {[NoFusion EXCEPT !.service = "kline", !.pc = "start", !.data = h, !.quote = q, !.t = t] :
        h \in Histories, q \in RealtimeQuotes,
        t \in {[day |-> today, hour |-> MarketCloseHour - 1]}}

InitFusion ==
    /\ QueueIdle
    /\ ThreadsIdle
    /\ FallbackIdle
    /\ StoreIdle
    /\ smart = NoSmart
    /\ backfill = NoBackfill
    /\ ServiceIdle
    /\ fusion \in FusionInputs(MaxDay)

\* the series is fused with the quote, and the result fused with it again
Fused(series, service, quote, t) ==
    IF service = "bar" THEN merge_realtime_data(series, t, quote.now)
    ELSE merge_realtime(series, quote, Today(t))
FuseStep(service) ==
    /\ fusion.service = service
    /\ fusion.pc \in {"start", "once"}
    /\ fusion' = IF fusion.pc = "start"
                 THEN [fusion EXCEPT !.pc = "once",
                          !.once = Fused(fusion.data, service, fusion.quote, fusion.t)]
                 ELSE [fusion EXCEPT !.pc = "twice",
                          !.twice = Fused(fusion.once, service, fusion.quote, fusion.t)]
    /\ UNCHANGED <<storeVars, threadVars, queueVars, fallbackVars, smart, backfill,
                   serviceVars>>

\* LocalDataService._merge_realtime_data(code, data)
MergeRealtimeData == FuseStep("bar")
\* RealtimeKlineService._merge_realtime(history, realtime)
MergeRealtime == FuseStep("kline")

NextFusion == MergeRealtimeData \/ MergeRealtime

SpecFusion == InitFusion /\ [][NextFusion]_vars

\* ------------------------------------------ properties of Parts 6 and 7
\* a step of get_stock_data_smart: the clock stands and no task function is called
SmartStep == now' = now /\ executed' = executed

\* the stored bars of the symbol
StoredBars(hist, code) ==
    {[date |-> x.date, ohlcv |-> x.ohlcv] : x \in {y \in hist : y.code = code}}

\* C21: get_stock_data_smart takes the warm path exactly when the local bar
\* count c and the window N satisfy c >= 0.8 * N.
WarmExactlyWhenSufficient ==
    smart.path # "none" =>
        (smart.path = "warm"
            <=> DATA_COMPLETENESS_RATIO.den * smart.count
                    >= DATA_COMPLETENESS_RATIO.num * smart.days)

\* C22: a cold call to which a provider answers with bars stores a row for
\* every bar of the series, returns the series as fetched when fusion is off
\* or the session is closed, and makes exactly one submit call, for the
\* backfill of the symbol at priority LOW.
ColdSuccessSavesAndSubmitsBackfill ==
    [][(SmartStep /\ smart'.path = "cold" /\ smart'.fetched # <<>>) =>
        \A code \in Codes :
            /\ \A i \in 1..Len(smart'.fetched) :
                    smart'.fetched[i].date \in ExistingDates(stock_history', code)
            /\ sync_log' # {}
            /\ (~smart'.include_realtime \/ ~is_trading_time(now))
                    => smart'.ret = smart'.fetched
            /\ Len(smart'.submits) = 1
            /\ smart'.submits[1].name = BackfillName(code)
            /\ smart'.submits[1].priority = LOW
            /\ submitted' = Bump(submitted, BackfillName(code))
            /\ BackfillName(code) \in pending_tasks']_vars

\* C22 witness: the third provider answered with bars after the first two
\* had failed, and the backfill entry is in the queue at priority LOW
ColdSuccessFromLastProvider ==
    /\ smart.path = "cold"
    /\ smart.fetched # <<>>
    /\ smart.ret = smart.fetched
    /\ Len(smart.calls) = MAX_RETRIES + 2
    /\ \E e \in queue : e.name = BackfillName("600519") /\ e.priority = LOW
    /\ submitted[IncrementalName("600519")] = 0

\* C23: a cold call to which every provider answers None or empty, Tencent
\* MAX_RETRIES times, returns None and changes neither table nor the queue.
ColdFailureChangesNothing ==
    [][(SmartStep /\ smart'.path = "cold" /\ smart'.fetched = <<>>) =>
        /\ smart'.ret = <<>>
        /\ smart'.calls = [i \in 1..(MAX_RETRIES + 2) |->
                              IF i <= MAX_RETRIES THEN "tencent"
                              ELSE IF i = MAX_RETRIES + 1 THEN "eastmoney" ELSE "akshare"]
        /\ smart'.submits = <<>>
        /\ UNCHANGED <<stock_history, sync_log, queue, unfinished, pending_tasks,
                       task_counter, submitted, accepted>>]_vars

\* C23 witness: a store that holds bars, too few for the window asked for,
\* and a call that every provider failed
ColdFailureOnStoredSymbol ==
    /\ smart.path = "cold"
    /\ smart.fetched = <<>>
    /\ smart.ret = <<>>
    /\ Len(smart.calls) = MAX_RETRIES + 2
    /\ smart.count >= 1
    /\ stock_history # {}

\* C24: a warm call without fusion returns the min(N, stored) latest stored
\* bars of the symbol in ascending order, calls no provider, and leaves both
\* tables as they were; nothing but the queue changes.
WarmReadLeavesStore ==
    [][(SmartStep /\ smart'.path = "warm" /\ ~smart'.include_realtime) =>
        \A code \in Codes :
            LET rows == StoredBars(stock_history, code)
                ret == smart'.ret
            IN  /\ Len(ret) = IF smart'.days <= Cardinality(rows)
                              THEN smart'.days ELSE Cardinality(rows)
                /\ \A i \in 1..Len(ret) : ret[i] \in rows
                /\ \A i \in 1..Len(ret) : \A j \in 1..Len(ret) :
                        i < j => ret[i].date < ret[j].date
                /\ \A x \in rows :
                        (\A i \in 1..Len(ret) : ret[i] # x) => x.date < ret[1].date
                /\ smart'.calls = <<>>
                /\ smart'.fetched = <<>>
                /\ UNCHANGED <<stock_history, sync_log, now, call, backfill,
                               completed_count, failed_count, running>>]_vars

\* C24 witness: a warm call without fusion that returned fewer bars than are
\* stored and submitted both tasks
WarmReadOfLatestBars ==
    /\ smart.path = "warm"
    /\ ~smart.include_realtime
    /\ Len(smart.ret) < RowCount(stock_history, "600519")
    /\ Len(smart.submits) = 2

\* the bars or K-lines of a series that are dated d
DatedCount(series, d) ==
    Cardinality({i \in 1..Len(series) :
        IF fusion.service = "bar" THEN series[i].date = d ELSE series[i].time = d})

\* C25: a series fused with a quote, fused again with the same quote at the
\* same time, is the series fused once; the second fusion adds no bar of today.
FusionIdempotent ==
    fusion.pc = "twice" =>
        /\ fusion.twice = fusion.once
        /\ DatedCount(fusion.twice, Today(fusion.t)) = DatedCount(fusion.once, Today(fusion.t))

\* C25 witness: the first fusion appended today's K-line, and the second
\* left the series as the first had made it
FusedTwiceAfterAppend ==
    /\ fusion.pc = "twice"
    /\ Len(fusion.once) = Len(fusion.data) + 1
    /\ fusion.once[Len(fusion.once)].time = Today(fusion.t)
    /\ fusion.twice = fusion.once

\* C26: _merge_realtime_data, in a trading session with a quote for the
\* symbol, returns the series with one bar appended, dated today and closing
\* at the quote's price, when the series has no bar of today; in every other
\* case it returns the series as it came.
LiveFusionRule ==
    (fusion.service = "bar" /\ fusion.pc # "start") =>
        fusion.once =
            IF /\ is_trading_time(fusion.t)
               /\ fusion.quote.now # 0
               /\ Today(fusion.t) \notin SeriesDates(fusion.data)
            THEN Append(fusion.data, [date |-> Today(fusion.t), ohlcv |-> fusion.quote.now])
            ELSE fusion.data

\* C27: a warm call with fusion, made in a trading session in which the
\* quotation service has a price and today's bar is stored, returns today's
\* bar last, closing at that price.
WarmFusionOverlaysLivePrice ==
    (/\ smart.path = "warm"
     /\ smart.include_realtime
     /\ smart.quote # 0
     /\ is_trading_time(now)
     /\ smart.ret[Len(smart.ret)].date = Today(now))
        => smart.ret[Len(smart.ret)].ohlcv = smart.quote

\* C28: a run of _background_backfill sets full_sync_completed exactly when
\* one of its page fetches came back empty.
BackfillMarksOnlyAfterEmptyPage ==
    backfill.ran => (backfill.marked <=> backfill.empty_page)

\* C29: once a backfill run has had an empty page and set full_sync_completed,
\* no get_stock_data_smart call submits the backfill of the symbol.
NoBackfillAfterSaturation ==
    [][(SmartStep /\ backfill.saturated) =>
        \A i \in 1..Len(smart'.submits) :
            ~(smart'.submits[i].name = BackfillName("600519")
                /\ smart'.submits[i].accepted)]_vars

\* C30: the first provider a cold call asks is Tencent for a window of at
\* most 640 days, and another provider for a larger window.
ProviderOrderBySize ==
    smart.path = "cold" =>
        IF smart.days <= FullHistoryDays
        THEN smart.calls[1] = "tencent"
        ELSE smart.calls[1] # "tencent"

\* ---------------------------------------------------------------------------
\* Part 8.  The page loop of TencentDataSource.fetch_kline and
\*          EastmoneyDataSource.fetch_kline
\* ---------------------------------------------------------------------------
\* rows of one page: max_days is 640 for Tencent and 3000 for Eastmoney; the
\* loops are the same, the page sizes are scaled to MaxPageRows and one more
MaxPageRows == 2
\* if len(all_dfs) > 50: break
PageCap == 50
\* the date of the newest bar the provider has
LatestDate == MaxDay

PagedSources == {"tencent", "eastmoney"}
max_days(source) == IF source = "tencent" THEN MaxPageRows ELSE MaxPageRows + 1

\* the windows asked for: the small ones, and the ones that need about
\* PageCap full pages
RequestedDays(source) ==
    (1..(2 * max_days(source) + 1))
        \cup {PageCap * max_days(source) + k : k \in 0..(max_days(source) + 1)}

\* the provider's answer to one page request: the n newest bars that are not
\* later than end_date (not later than LatestDate when no end date is given)
PageRows(end_given, end_date, n) ==
    LET last == IF end_given THEN Min2(end_date, LatestDate) ELSE LatestDate
    IN  (last - n + 1)..last

\* fetch_kline(code, days, end_date), lines 94-97
FetchKlineStart(source, days, end_given) ==
    /\ pager.pc \in {"idle", "done"}
    /\ pager' = [pc |-> "loop", source |-> source, days |-> days,
                 remaining_days |-> days, end_given |-> end_given,
                 current_end_date |-> IF end_given THEN LatestDate - 1 ELSE 0,
                 pages |-> 0, requests |-> <<>>, fetched |-> {},
                 short |-> FALSE, capped |-> FALSE]
    /\ UNCHANGED <<storeVars, threadVars, queueVars, fallbackVars, smart, backfill, fusion,
                   snapshot, routed, waiter>>

\* one pass of `while remaining_days > 0`: the request, and n rows in the answer
\* (none when the request failed three times or the answer holds no klines)
FetchKlinePage(n) ==
    /\ pager.pc = "loop"
    /\ pager.remaining_days > 0
    /\ LET fetch_days == Min2(pager.remaining_days, max_days(pager.source))
           request == [end_given |-> pager.end_given, end_date |-> pager.current_end_date,
                       fetch_days |-> fetch_days]
           df_chunk == PageRows(pager.end_given, pager.current_end_date, n)
           asked == [pager EXCEPT !.requests = Append(@, request)]
       IN  /\ n \in 0..fetch_days
           /\ pager' =
                IF n = 0 THEN [asked EXCEPT !.pc = "done"]
                ELSE IF n < fetch_days
                THEN [asked EXCEPT !.pc = "done", !.pages = @ + 1,
                                   !.fetched = @ \cup df_chunk, !.short = TRUE]
                ELSE [asked EXCEPT
                        !.pages = @ + 1,
                        !.fetched = @ \cup df_chunk,
                        !.end_given = TRUE,
                        !.current_end_date = SetMin(df_chunk) - 1,
                        !.remaining_days = @ - n,
                        !.capped = pager.pages + 1 > PageCap,
                        !.pc = IF pager.pages + 1 > PageCap \/ pager.remaining_days - n <= 0
                               THEN "done" ELSE "loop"]
    /\ UNCHANGED <<storeVars, threadVars, queueVars, fallbackVars, smart, backfill, fusion,
                   snapshot, routed, waiter>>

InitPager ==
    /\ QueueIdle
    /\ ThreadsIdle
    /\ FallbackIdle
    /\ StoreIdle
    /\ SmartIdle

NextPager ==
    \/ \E source \in PagedSources : \E days \in RequestedDays(source) :
       \E end_given \in BOOLEAN : FetchKlineStart(source, days, end_given)
    \/ \E n \in 0..(MaxPageRows + 1) : FetchKlinePage(n)

SpecPager == InitPager /\ [][NextPager]_vars

\* ---------------------------------------------------------------------------
\* Properties of Part 8
\* ---------------------------------------------------------------------------
\* the end date of request i of the running fetch is before every date that
\* the pages before it brought
EndDatesDescend ==
    \A i \in 2..Len(pager.requests) :
        /\ pager.requests[i].end_given
        /\ \A j \in 1..(i - 1) :
             \A d \in PageRows(pager.requests[j].end_given, pager.requests[j].end_date,
                               pager.requests[j].fetch_days) :
                pager.requests[i].end_date < d

\* C31: one fetch_kline call makes at most 50 page requests; it goes on only
\* while the window is not covered and no page came back short; and every
\* later request has an end date before every date already fetched.
PaginationWithinCap ==
    /\ Len(pager.requests) <= PageCap
    /\ pager.pc = "loop" => (pager.remaining_days > 0 /\ ~pager.short)
    /\ EndDatesDescend

\* ---------------------------------------------------------------------------
\* Part 9.  RealtimeQuotationService.get_market_snapshot and its cache
\* ---------------------------------------------------------------------------
\* seconds of time.time() modelled
MaxClock == 5
\* _cache_ttl: int = 3
CacheTtl == 3

\* limit = 0 asks for every stock, limit = 100 is the default
Limits == {0, 100}
\* cache_key = f"market_{limit}_{prefix}"
cache_key(limit, prefix) == <<"market", limit, prefix>>
CacheKeys == {cache_key(limit, prefix) : limit \in Limits, prefix \in BOOLEAN}

\* self._cache[cache_key]; a snapshot is told from another by the time
\* the provider was asked for it
Cached(cache, key) == {e \in cache : e.key = key}
CacheGet(cache, key) == CHOOSE e \in Cached(cache, key) : TRUE
CachePut(cache, key, result) ==
    (cache \ Cached(cache, key)) \cup {[key |-> key, fetched_at |-> result]}

\* the test of lines 407-408
CacheFresh(s, key, current_time) ==
    /\ Cached(s.cache, key) # {}
    /\ current_time - s.cache_time < CacheTtl

\* get_market_snapshot(limit, prefix)
GetMarketSnapshot(limit, prefix) ==
    /\ snapshot.calls < MaxClock
    /\ LET current_time == snapshot.clock
           key == cache_key(limit, prefix)
       IN  snapshot' =
             IF CacheFresh(snapshot, key, current_time)
             THEN [snapshot EXCEPT
                     !.calls = @ + 1,
                     !.ret = [key |-> key, hit |-> TRUE, empty |-> FALSE,
                              age |-> current_time - CacheGet(snapshot.cache, key).fetched_at]]
             ELSE IF ~snapshot.stock_codes
             THEN [snapshot EXCEPT
                     !.calls = @ + 1,
                     !.ret = [key |-> key, hit |-> FALSE, empty |-> TRUE, age |-> 0]]
             ELSE [snapshot EXCEPT
                     !.calls = @ + 1,
                     !.cache = CachePut(@, key, current_time),
                     !.cache_time = current_time,
                     !.ret = [key |-> key, hit |-> FALSE, empty |-> FALSE, age |-> 0]]
    /\ UNCHANGED <<storeVars, threadVars, queueVars, fallbackVars, smart, backfill, fusion,
                   pager, routed, waiter>>

\* a second of time.time() passes
ClockTick ==
    /\ snapshot.clock < MaxClock
    /\ snapshot' = [snapshot EXCEPT !.clock = @ + 1]
    /\ UNCHANGED <<storeVars, threadVars, queueVars, fallbackVars, smart, backfill, fusion,
                   pager, routed, waiter>>

\* RealtimeQuotationService.__init__: the code list is loaded, or the file is
\* missing and the list stays empty
InitSnapshot ==
    /\ QueueIdle
    /\ ThreadsIdle
    /\ FallbackIdle
    /\ StoreIdle
    /\ smart = NoSmart /\ backfill = NoBackfill /\ fusion = NoFusion
    /\ pager = NoPager /\ routed = NoRouted /\ waiter = NoWaiter
    /\ \E loaded \in BOOLEAN : snapshot = [NoSnapshot EXCEPT !.stock_codes = loaded]

NextSnapshot ==
    \/ \E limit \in Limits : \E prefix \in BOOLEAN : GetMarketSnapshot(limit, prefix)
    \/ ClockTick

SpecSnapshot == InitSnapshot /\ [][NextSnapshot]_vars

\* ---------------------------------------------------------------------------
\* Properties of Part 9
\* ---------------------------------------------------------------------------
\* C32: a snapshot served from the cache was fetched from the provider less
\* than 3 seconds before the call that returns it.
CachedSnapshotIsFresh ==
    snapshot.ret.hit => snapshot.ret.age < CacheTtl

\* ---------------------------------------------------------------------------
\* Part 10.  The last trading day: LocalDataService.get_last_trading_day,
\*           utils.date_utils.get_last_trading_day and
\*           analyzers.data_fetcher._get_last_trading_date
\* ---------------------------------------------------------------------------
\* weeks of the calendar modelled
CalendarWeeks == 2
\* now.hour == 15 and now.minute < 30;  "15:30"
LastTradingDayMinute == 30
\* for _ in range(10)
WalkBackLimit == 10
\* date.weekday() of a Saturday
Saturday == 5

\* a date is a day number; day 0 is a Monday
weekday(d) == d % 7
CalendarDays == 7..(7 * (CalendarWeeks + 1) - 1)
ClockHours == {MarketCloseHour - 1, MarketCloseHour, MarketCloseHour + 1}
ClockMinutes == {0, LastTradingDayMinute - 1, LastTradingDayMinute, 59}
Instants == [day : CalendarDays, hour : ClockHours, minute : ClockMinutes]

\* utils.date_utils.is_trading_day(check_date)
is_trading_day(d) == weekday(d) < Saturday

RECURSIVE SkipWeekend(_)
\* while target.weekday() >= 5: target -= timedelta(days=1)
SkipWeekend(target) ==
    IF weekday(target) >= Saturday THEN SkipWeekend(target - 1) ELSE target

\* now.hour < 15 or (now.hour == 15 and now.minute < 30)
BeforeHalfPastThree(t) ==
    t.hour < LastTradingDayHour
        \/ (t.hour = LastTradingDayHour /\ t.minute < LastTradingDayMinute)

\* LocalDataService.get_last_trading_day() at the instant t
local_get_last_trading_day(t) ==
    SkipWeekend(IF BeforeHalfPastThree(t) THEN t.day - 1 ELSE t.day)

RECURSIVE WalkBack(_, _)
\* for _ in range(10): if is_trading_day(check_date): return check_date
WalkBack(check_date, left) ==
    IF left = 0 THEN check_date
    ELSE IF is_trading_day(check_date) THEN check_date
    ELSE WalkBack(check_date - 1, left - 1)

\* utils.date_utils.get_last_trading_day(from_date)
utils_get_last_trading_day(from_date) == WalkBack(from_date, WalkBackLimit)

\* analyzers.data_fetcher._get_last_trading_date() at the instant t: `now`
\* keeps its time of day while it is moved back over the weekend
get_last_trading_date(t) ==
    LET rolled == SkipWeekend(t.day)
    IN  IF BeforeHalfPastThree(t) THEN SkipWeekend(rolled - 1) ELSE rolled

\* the three functions are asked at the instant routed.input
LastTradingDays ==
    /\ routed.kind = "instant"
    /\ routed' = [routed EXCEPT
            !.kind = "days",
            !.output = [local |-> local_get_last_trading_day(routed.input),
                        utils |-> utils_get_last_trading_day(routed.input.day),
                        fetcher |-> get_last_trading_date(routed.input)]]
    /\ UNCHANGED <<storeVars, threadVars, queueVars, fallbackVars, smart, backfill, fusion,
                   pager, snapshot, waiter>>

InitCalendar ==
    /\ QueueIdle
    /\ ThreadsIdle
    /\ FallbackIdle
    /\ StoreIdle
    /\ smart = NoSmart /\ backfill = NoBackfill /\ fusion = NoFusion
    /\ pager = NoPager /\ snapshot = NoSnapshot /\ waiter = NoWaiter
    /\ \E t \in Instants :
         routed = [kind |-> "instant", input |-> t,
                   output |-> [local |-> 0, utils |-> 0, fetcher |-> 0]]

NextCalendar == LastTradingDays

SpecCalendar == InitCalendar /\ [][NextCalendar]_vars

\* ---------------------------------------------------------------------------
\* Properties of Part 10
\* ---------------------------------------------------------------------------
\* the latest weekday before d
EarlierWeekday(d) == SetMax({x \in (d - 7)..(d - 1) : weekday(x) < Saturday})
\* the Friday before a Saturday or Sunday d
FridayBefore(d) == SetMax({x \in (d - 7)..(d - 1) : weekday(x) = Saturday - 1})
\* t is later than 15:00
AfterThree(t) == t.hour > MarketCloseHour \/ (t.hour = MarketCloseHour /\ t.minute > 0)

\* C33: the day needs_update compares with is the day of t when that is a
\* weekday and t is after 15:00, and the latest earlier weekday otherwise;
\* each of the three functions returns a weekday, and the Friday before when
\* asked on a Saturday or Sunday.
LastTradingDayRule ==
    routed.kind = "days" =>
        LET t == routed.input
            out == routed.output
        IN  /\ out.local = IF weekday(t.day) < Saturday /\ AfterThree(t)
                           THEN t.day ELSE EarlierWeekday(t.day)
            /\ \A d \in {out.local, out.utils, out.fetcher} : weekday(d) < Saturday
            /\ weekday(t.day) >= Saturday =>
                 \A d \in {out.local, out.utils, out.fetcher} : d = FridayBefore(t.day)

\* ---------------------------------------------------------------------------
\* Part 11.  Symbol routing: utils.stock_utils.get_stock_type,
\*           TencentDataSource._get_symbol and the prefix rule of
\*           LocalDataService._fetch_backward_from_tencent
\* ---------------------------------------------------------------------------
\* the leading digits of a 6-digit code that are modelled; the longest head
\* the code tests ("110", "204") has three
HeadDigits == 3

Digits == 0..9
StockCodes == [1..HeadDigits -> Digits]

\* str.startswith(heads), heads a tuple of digit strings
startswith(code, heads) ==
    \E h \in heads : Len(h) <= Len(code) /\ SubSeq(code, 1, Len(h)) = h

\* bj_head = ("43", "83", "87", "92")
bj_head == {<<4, 3>>, <<8, 3>>, <<8, 7>>, <<9, 2>>}
\* sh_head = ("5", "6", "7", "9", "110", "113", "118", "132", "204")
sh_head == {<<5>>, <<6>>, <<7>>, <<9>>, <<1, 1, 0>>, <<1, 1, 3>>, <<1, 1, 8>>,
            <<1, 3, 2>>, <<2, 0, 4>>}

\* get_stock_type(code), code without a market prefix
get_stock_type(code) ==
    IF startswith(code, bj_head) THEN "bj"
    ELSE IF startswith(code, sh_head) THEN "sh"
    ELSE "sz"

\* TencentDataSource._get_symbol(code): the market prefix it puts before code
get_symbol(code) ==
    IF startswith(code, {<<5>>, <<6>>, <<9>>}) THEN "sh"
    ELSE IF startswith(code, {<<4>>, <<8>>}) THEN "bj"
    ELSE "sz"

\* _fetch_backward_from_tencent, lines 690-693
backward_symbol(code) ==
    IF startswith(code, {<<5>>, <<6>>, <<9>>}) THEN "sh" ELSE "sz"

\* the three rules are applied to the code routed.input
RouteCode ==
    /\ routed.kind = "code"
    /\ routed' = [routed EXCEPT
            !.kind = "markets",
            !.output = [stock_type |-> get_stock_type(routed.input),
                        symbol |-> get_symbol(routed.input),
                        backward |-> backward_symbol(routed.input)]]
    /\ UNCHANGED <<storeVars, threadVars, queueVars, fallbackVars, smart, backfill, fusion,
                   pager, snapshot, waiter>>

InitRouting ==
    /\ QueueIdle
    /\ ThreadsIdle
    /\ FallbackIdle
    /\ StoreIdle
    /\ smart = NoSmart /\ backfill = NoBackfill /\ fusion = NoFusion
    /\ pager = NoPager /\ snapshot = NoSnapshot /\ waiter = NoWaiter
    /\ \E code \in StockCodes :
         routed = [kind |-> "code", input |-> code,
                   output |-> [stock_type |-> "", symbol |-> "", backward |-> ""]]

NextRouting == RouteCode

SpecRouting == InitRouting /\ [][NextRouting]_vars

\* ---------------------------------------------------------------------------
\* Properties of Part 11
\* ---------------------------------------------------------------------------
\* C34: the three rules choose the same market for every code: sh for a code
\* that starts with 5, 6 or 9, bj for one that starts with 4 or 8, sz otherwise.
OneRoutingFunction ==
    routed.kind = "markets" =>
        LET market == IF routed.input[1] \in {5, 6, 9} THEN "sh"
                      ELSE IF routed.input[1] \in {4, 8} THEN "bj"
                      ELSE "sz"
        IN  /\ routed.output.stock_type = market
            /\ routed.output.symbol = market
            /\ routed.output.backward = market

\* ---------------------------------------------------------------------------
\* Properties of Part 6: the scheduling of the warm path and the repair of a
\* bar of today that was written before the close
\* ---------------------------------------------------------------------------
\* the names of the tasks a get_stock_data_smart call passed to submit
SubmittedNames(s) == {s.submits[i].name : i \in 1..Len(s.submits)}

\* today's bar is the last bar of the symbol, it was synced before 15:00 of
\* today, and it is after 15:00 now
StaleBar(hist, log, t, code) ==
    /\ ExistingDates(hist, code) # {}
    /\ get_last_data_date(hist, code) = Today(t)
    /\ \E x \in SyncRows(log, code) : TimeLess(x.updated_at, MarketCloseTime(t))
    /\ TimeLess(MarketCloseTime(t), t)

\* C35: a warm get_stock_data_smart call submits the incremental task, at
\* priority HIGH, exactly when the last stored date is before the last trading
\* day or today's bar is stale, the backfill task, at priority LOW, exactly
\* when the full history is not completed, and no other task.
WarmSchedulingRule ==
    [][(SmartStep /\ smart'.path = "warm") =>
        \A code \in Codes :
            /\ IncrementalName(code) \in SubmittedNames(smart')
                 <=> \/ get_last_data_date(stock_history, code) < get_last_trading_day(now)
                     \/ StaleBar(stock_history, sync_log, now, code)
            /\ BackfillName(code) \in SubmittedNames(smart')
                 <=> ~is_full_sync_completed(sync_log, code)
            /\ \A i \in 1..Len(smart'.submits) :
                 \/ smart'.submits[i].name = IncrementalName(code)
                       /\ smart'.submits[i].priority = HIGH
                 \/ smart'.submits[i].name = BackfillName(code)
                       /\ smart'.submits[i].priority = LOW]_vars

\* a worker runs the incremental task of the symbol in this step
IncrementalStep(code) ==
    executed'[IncrementalName(code)] = executed[IncrementalName(code)] + 1

\* C36: a warm request that finds today's bar written before 15:00, after
\* 15:00, submits the incremental task; and a run of that task which saves
\* what it fetched leaves one bar of today, a sync time not before 15:00, and
\* a bar that is stale no longer.
StaleRepairConverges ==
    [][\A code \in Codes :
        /\ (SmartStep /\ smart'.path = "warm"
                /\ StaleBar(stock_history, sync_log, now, code))
             => IncrementalName(code) \in SubmittedNames(smart')
        /\ (IncrementalStep(code) /\ StaleBar(stock_history, sync_log, now, code)
                /\ sync_log' # sync_log)
             => /\ Today(now) \in ExistingDates(stock_history', code)
                /\ SyncedAfterClose(sync_log', now, code)
                /\ ~StaleBar(stock_history', sync_log', now, code)]_vars

\* ---------------------------------------------------------------------------
\* Properties of Part 1: the sync state after a save
\* ---------------------------------------------------------------------------
\* C39: after every save_stock_data call that saved rows, the last_data_date
\* of the symbol's sync_log row is the latest date of the symbol's stored bars.
SyncLogTracksNewestBar ==
    [][(call'.op = "save" /\ call'.ret > 0 /\ now' = now) =>
        \A x \in SyncRows(sync_log', call'.code) :
            x.last_data_date = get_last_data_date(stock_history', call'.code)]_vars

\* ---------------------------------------------------------------------------
\* Properties of Part 3: one task of a name at a time, liveness, statistics
\* ---------------------------------------------------------------------------
\* the entries of the queue named n, and the workers that hold a task named n
\* whose name the finally clause has not yet released
QueuedNamed(n) == {e \in queue : e.name = n}
RunningNamed(n) ==
    {w \in Threads : /\ wtask[w].name = n
                     /\ wpc[w] \in {"call", "func", "count_failed", "count_completed",
                                    "finally"}}

\* C37: for every task name, the tasks of that name in the queue and the tasks
\* of that name a worker is running are at most one together.
OneTaskPerName ==
    \A n \in TaskNames : Cardinality(QueuedNamed(n)) + Cardinality(RunningNamed(n)) <= 1

\* C37 witness: a name was submitted twice while its first task was still
\* running; the second submit was dropped and one worker runs the task
SecondSubmitDroppedWhileRunning ==
    \E n \in TaskNames :
        /\ submitted[n] = 2
        /\ accepted[n] = 1
        /\ \E w \in Threads : wtask[w].name = n /\ wpc[w] = "func"
        /\ QueuedNamed(n) = {}

\* ---------------------------------------------------------------------------
\* Part 12.  wait_completion beside the submitting threads and the workers,
\*           under fair scheduling of the threads
\* ---------------------------------------------------------------------------
\* the submit calls of name n that have returned: accepted, and put
PutCount(n) ==
    accepted[n] - Cardinality({s \in Submitters : spc[s] = "put" /\ stask[s].name = n})

\* a join that does not wait
JoinReturnsAtOnce(unfinished_tasks) == TRUE
\* Queue.join(): it returns when the count of unfinished tasks, raised by
\* every put and lowered by every task_done, is 0
JoinReturns(unfinished_tasks) == unfinished_tasks = 0

\* wait_completion is called
WaitCompletionCall ==
    /\ waiter.pc = "idle"
    /\ waiter' = [pc |-> "join", before |-> [n \in TaskNames |-> PutCount(n)]]
    /\ UNCHANGED <<storeVars, threadVars, queueVars, fallbackVars, smart, backfill, fusion,
                   pager, snapshot, routed>>

\* self._queue.join() returns, and wait_completion with it
WaitCompletionReturn ==
    /\ waiter.pc = "join"
    /\ JoinReturns(unfinished)
    /\ waiter' = [waiter EXCEPT !.pc = "returned"]
    /\ UNCHANGED <<storeVars, threadVars, queueVars, fallbackVars, smart, backfill, fusion,
                   pager, snapshot, routed>>

\* one step of the worker thread w
WorkerStep(w) ==
    \/ WorkerLoop(w)
    \/ WorkerGet(w)
    \/ WorkerGetTimeout(w)
    \/ WorkerCall(w)
    \/ \E raised \in BOOLEAN : WorkerFuncEnds(w, raised)
    \/ WorkerCount(w)
    \/ WorkerDiscard(w)
    \/ WorkerTaskDone(w)

NextWait ==
    \/ NextQueue
    \/ WaitCompletionCall
    \/ WaitCompletionReturn

\* every thread that can take a step takes one in the end: the workers are
\* threads of the interpreter, the task functions return, and a submit call
\* that has passed the pending check goes on to its put
FairThreads ==
    /\ \A w \in Threads : WF_vars(WorkerStep(w))
    /\ \A s \in Submitters : WF_vars(SubmitPut(s))

SpecWait == InitQueue /\ [][NextWait]_vars /\ FairThreads

\* ---------------------------------------------------------------------------
\* Properties of Part 12
\* ---------------------------------------------------------------------------
\* every accepted task has been handed to its function
AllExecuted == \A n \in TaskNames : executed[n] = accepted[n]

TotalExecuted == executed["incr-600519"] + executed["backfill-600519"]

\* nothing is queued, no submit call is under way and no worker holds a task
NothingInFlight ==
    /\ queue = {}
    /\ \A s \in Submitters : spc[s] = "idle"
    /\ \A w \in Threads : wpc[w] \in {"loop", "get", "stopped"}

\* C40: when the queue is idle, stats reports completed + failed equal to the
\* number of tasks that were executed, and pending_tasks 0.
StatisticsExact ==
    NothingInFlight =>
        /\ completed_count + failed_count = TotalExecuted
        /\ Cardinality(pending_tasks) = 0

====
